---- MODULE Spec2Model ----
(***************************************************************************)
(* A model of OSCMIDIApp (src/oscplease.py): the OSC <-> MIDI address      *)
(* codec, the sent-message history and its sweeps, the session (start,     *)
(* stop, the 16 Ch restart, the device menus), the MIDI input listener,    *)
(* the OSC dispatcher callback, the tempo controls and the threaded        *)
(* playlist player with its play / stop / skip / pause controls.           *)
(*                                                                         *)
(* Strings of the program (OSC addresses) are sequences of one-character   *)
(* strings, so that formatting and the regular expression of               *)
(* handle_osc_message are computed character by character.  Times are      *)
(* integers in microseconds.  MIDI files are records holding what          *)
(* mido.MidiFile reads from the path: ticks_per_beat and the tracks.       *)
(***************************************************************************)
EXTENDS Integers, Sequences, FiniteSets, TLC

(***************************************************************************)
(* Bounds of the model.                                                    *)
(***************************************************************************)
\* player threads that may exist at once (threading.Thread objects started by play)
MaxThreads == 2
\* files the playlist may hold
MaxPlaylist == 2
\* network messages sent through osc_client in one behaviour
MaxOscSent == 2
\* MIDI messages sent through midi_out in one behaviour
MaxMidiSent == 2
\* simulated time, in steps of ClockQuantum
MaxQuanta == 4
\* listener threads that may exist at once
MaxListeners == 2
\* the test notes sent, enough to fill the history and overflow it
MaxTestNotes == 102
\* the steps of the clock while the history fills
MaxHistoryTicks == 1

(***************************************************************************)
(* Program constants.                                                      *)
(***************************************************************************)
HistoryMaxLen == 100
HistoryWindow == 100000
DefaultTempo == 120
DefaultMicrosecondsPerBeat == 500000
TestNote == 60
OscVelocity == 100
PausePoll == 10000

\* the step by which the simulated clock advances when no sleeper wakes sooner
ClockQuantum == 25 * PausePoll

None == "None"

(***************************************************************************)
(* Characters and decimal numerals (str(int), int(str)).                   *)
(***************************************************************************)
Digits == <<"0", "1", "2", "3", "4", "5", "6", "7", "8", "9">>

IsDigit(c) == \E i \in 1..10 : Digits[i] = c

DigitVal(c) == (CHOOSE i \in 1..10 : Digits[i] = c) - 1

\* f"{n}" for an integer n >= 0
RECURSIVE FormatNat(_)
FormatNat(n) == IF n < 10 THEN <<Digits[n + 1]>>
                ELSE FormatNat(n \div 10) \o <<Digits[(n % 10) + 1]>>

\* int(s) for a non-empty run of decimal digits s
RECURSIVE ParseNat(_)
ParseNat(s) == IF Len(s) = 0 THEN 0
               ELSE 10 * ParseNat(SubSeq(s, 1, Len(s) - 1)) + DigitVal(s[Len(s)])

AllDigits(s) == Len(s) > 0 /\ \A i \in 1..Len(s) : IsDigit(s[i])

\* the longest run of digits of s that starts at position p (\d+, greedy)
RECURSIVE DigitRun(_, _)
DigitRun(s, p) == IF p <= Len(s) /\ IsDigit(s[p]) THEN <<s[p]>> \o DigitRun(s, p + 1)
                  ELSE <<>>

\* whether lit occurs in s at position p
StartsAt(s, p, lit) == /\ p + Len(lit) - 1 <= Len(s)
                       /\ SubSeq(s, p, p + Len(lit) - 1) = lit

S_ch == <<"/", "c", "h">>
S_note == <<"n", "o", "t", "e">>
S_noff == <<"n", "o", "f", "f">>
S_cc == <<"c", "c">>
S_pressure == <<"p", "r", "e", "s", "s", "u", "r", "e">>
S_pitch == <<"p", "i", "t", "c", "h">>

(***************************************************************************)
(* MIDI messages (mido.Message) and the values an OSC argument may have.   *)
(***************************************************************************)
NoteOn(ch, n, v) == [type |-> "note_on", channel |-> ch, note |-> n, velocity |-> v]
NoteOff(ch, n, v) == [type |-> "note_off", channel |-> ch, note |-> n, velocity |-> v]
ControlChange(ch, c, v) == [type |-> "control_change", channel |-> ch, control |-> c, value |-> v]
Aftertouch(ch, v) == [type |-> "aftertouch", channel |-> ch, value |-> v]
Pitchwheel(ch, p) == [type |-> "pitchwheel", channel |-> ch, pitch |-> p]
ProgramChange(ch, p) == [type |-> "program_change", channel |-> ch, program |-> p]
SetTempo(t) == [type |-> "set_tempo", tempo |-> t]
EndOfTrack == [type |-> "end_of_track"]

\* no message
NoMessage == [type |-> "None"]

VoiceTypes == {"note_on", "note_off", "control_change", "aftertouch", "pitchwheel"}

\* an OSC argument: an int, a float (whole part and whether a fraction follows) or a string
IntArg(v) == [ty |-> "int", v |-> v]
FloatArg(w, frac) == [ty |-> "float", v |-> w, frac |-> frac]
StrArg(s) == [ty |-> "str", s |-> s]

\* Python's int(x): [ok, v]; int() of a float truncates, int() of a string parses a numeral
PyInt(x) == CASE x.ty = "int" -> [ok |-> TRUE, v |-> x.v]
              [] x.ty = "float" -> [ok |-> TRUE, v |-> x.v]
              [] x.ty = "str" -> IF AllDigits(x.s) THEN [ok |-> TRUE, v |-> ParseNat(x.s)]
                                 ELSE [ok |-> FALSE, v |-> 0]

\* mido.Message(...) raises ValueError for a data byte out of range
DataByte(v) == v \in 0..127
ValidChannel(c) == c \in 0..15
ValidPitch(p) == p \in -8192..8191

(***************************************************************************)
(* The address codec.                                                      *)
(***************************************************************************)
Address(channel, command) == S_ch \o FormatNat(channel) \o command

NetMsg(address, value, kind) == [address |-> address, args |-> <<IntArg(value)>>, kind |-> kind]

\* nothing is sent
NoNetMsg == [address |-> <<>>, args |-> <<>>, kind |-> "None"]

\* listener_encode with the channel left 0-indexed (no `+ 1`): the variant C2 is checked against
listener_encode_zero_based(msg) ==
    IF msg.type \in VoiceTypes
    THEN LET channel == msg.channel IN
         CASE msg.type = "note_on" /\ msg.velocity > 0 ->
                  NetMsg(Address(channel, S_note), msg.note, "note_on")
           [] msg.type = "note_off" \/ (msg.type = "note_on" /\ msg.velocity = 0) ->
                  NetMsg(Address(channel, S_noff), msg.note, "note_off")
           [] msg.type = "control_change" ->
                  NetMsg(Address(channel, S_cc \o FormatNat(msg.control)), msg.value, "control_change")
           [] msg.type = "aftertouch" ->
                  NetMsg(Address(channel, S_pressure), msg.value, "aftertouch")
           [] msg.type = "pitchwheel" ->
                  NetMsg(Address(channel, S_pitch), msg.pitch, "pitchwheel")
    ELSE NoNetMsg

\* run_midi_input, the body of the loop: the network message sent for msg, or None
listener_encode(msg) ==
    IF msg.type \in VoiceTypes
    THEN LET channel == msg.channel + 1 IN
         CASE msg.type = "note_on" /\ msg.velocity > 0 ->
                  NetMsg(Address(channel, S_note), msg.note, "note_on")
           [] msg.type = "note_off" \/ (msg.type = "note_on" /\ msg.velocity = 0) ->
                  NetMsg(Address(channel, S_noff), msg.note, "note_off")
           [] msg.type = "control_change" ->
                  NetMsg(Address(channel, S_cc \o FormatNat(msg.control)), msg.value, "control_change")
           [] msg.type = "aftertouch" ->
                  NetMsg(Address(channel, S_pressure), msg.value, "aftertouch")
           [] msg.type = "pitchwheel" ->
                  NetMsg(Address(channel, S_pitch), msg.pitch, "pitchwheel")
    ELSE NoNetMsg

\* player_encode without the velocity test (every note_on gives "note"): the variant C3 is
\* checked against
player_encode_velocity_blind(msg) ==
    IF msg.type \in VoiceTypes
    THEN LET channel == msg.channel + 1 IN
         CASE msg.type = "note_on" ->
                  NetMsg(Address(channel, S_note), msg.note, "note_on")
           [] msg.type = "note_off" ->
                  NetMsg(Address(channel, S_noff), msg.note, "note_off")
           [] msg.type = "control_change" ->
                  NetMsg(Address(channel, S_cc \o FormatNat(msg.control)), msg.value, "control_change")
           [] msg.type = "aftertouch" ->
                  NetMsg(Address(channel, S_pressure), msg.value, "aftertouch")
           [] msg.type = "pitchwheel" ->
                  NetMsg(Address(channel, S_pitch), msg.pitch, "pitchwheel")
    ELSE NoNetMsg

\* _play_single_midi, the body of the loop after the sleep: the network message sent for msg
player_encode(msg) ==
    IF msg.type \in VoiceTypes
    THEN LET channel == msg.channel + 1 IN
         CASE msg.type = "note_on" /\ msg.velocity > 0 ->
                  NetMsg(Address(channel, S_note), msg.note, "note_on")
           [] msg.type = "note_off" \/ (msg.type = "note_on" /\ msg.velocity = 0) ->
                  NetMsg(Address(channel, S_noff), msg.note, "note_off")
           [] msg.type = "control_change" ->
                  NetMsg(Address(channel, S_cc \o FormatNat(msg.control)), msg.value, "control_change")
           [] msg.type = "aftertouch" ->
                  NetMsg(Address(channel, S_pressure), msg.value, "aftertouch")
           [] msg.type = "pitchwheel" ->
                  NetMsg(Address(channel, S_pitch), msg.pitch, "pitchwheel")
    ELSE NoNetMsg

\* re.match(r"/ch(\d+)(note|noff|cc(\d+)|pressure|pitch)", address): the groups of the
\* match, which is anchored at the start of address only
RegexMatch(address) ==
    LET g1 == DigitRun(address, 4)
        p == 4 + Len(g1)
        g3 == DigitRun(address, p + 2)
        no == [matched |-> FALSE, g1 |-> <<>>, command |-> "", g3 |-> <<>>, end |-> 0]
    IN  IF ~StartsAt(address, 1, S_ch) \/ Len(g1) = 0 THEN no
        ELSE CASE StartsAt(address, p, S_note) ->
                      [matched |-> TRUE, g1 |-> g1, command |-> "note", g3 |-> <<>>, end |-> p + 3]
               [] StartsAt(address, p, S_noff) ->
                      [matched |-> TRUE, g1 |-> g1, command |-> "noff", g3 |-> <<>>, end |-> p + 3]
               [] StartsAt(address, p, S_cc) /\ Len(g3) > 0 ->
                      [matched |-> TRUE, g1 |-> g1, command |-> "cc", g3 |-> g3, end |-> p + 1 + Len(g3)]
               [] StartsAt(address, p, S_pressure) ->
                      [matched |-> TRUE, g1 |-> g1, command |-> "pressure", g3 |-> <<>>, end |-> p + 7]
               [] StartsAt(address, p, S_pitch) ->
                      [matched |-> TRUE, g1 |-> g1, command |-> "pitch", g3 |-> <<>>, end |-> p + 4]
               [] OTHER -> no

Raised == [ok |-> FALSE, msg |-> NoMessage, kind |-> "None"]
Built(m, kind) == [ok |-> TRUE, msg |-> m, kind |-> kind]

\* handle_osc_message, the body of the try up to the construction of the Message:
\* [ok |-> FALSE] when int(args[0]) or Message(...) raises
osc_decode(m, args) ==
    LET channel == ParseNat(m.g1) - 1
        a == IF Len(args) > 0 THEN PyInt(args[1]) ELSE [ok |-> FALSE, v |-> 0]
    IN  IF ~a.ok THEN Raised
        ELSE CASE m.command = "note" ->
                      IF ValidChannel(channel) /\ DataByte(a.v)
                      THEN Built(NoteOn(channel, a.v, OscVelocity), "note_on") ELSE Raised
               [] m.command = "noff" ->
                      IF ValidChannel(channel) /\ DataByte(a.v)
                      THEN Built(NoteOff(channel, a.v, 0), "note_off") ELSE Raised
               [] m.command = "cc" ->
                      LET control == ParseNat(m.g3) IN
                      IF ValidChannel(channel) /\ DataByte(control) /\ DataByte(a.v)
                      THEN Built(ControlChange(channel, control, a.v), "control_change") ELSE Raised
               [] m.command = "pressure" ->
                      IF ValidChannel(channel) /\ DataByte(a.v)
                      THEN Built(Aftertouch(channel, a.v), "aftertouch") ELSE Raised
               [] m.command = "pitch" ->
                      IF ValidChannel(channel) /\ ValidPitch(a.v)
                      THEN Built(Pitchwheel(channel, a.v), "pitchwheel") ELSE Raised

(***************************************************************************)
(* MIDI files.  A file is what mido.MidiFile(path) yields: ticks_per_beat  *)
(* and tracks of <<delta ticks, message>> pairs; readable = FALSE is a     *)
(* path MidiFile cannot read.                                              *)
(***************************************************************************)
MidiFile(tpb, tracks) == [readable |-> TRUE, ticks_per_beat |-> tpb, tracks |-> tracks]
Unreadable == [readable |-> FALSE, ticks_per_beat |-> 0, tracks |-> <<>>]

\* NoteOn(0, 60, 100) at tick 0 and NoteOff(0, 60) at tick 480, 480 ticks per beat
NoteFile == MidiFile(480, << << <<0, NoteOn(0, 60, 100)>>, <<480, NoteOff(0, 60, 0)>> >> >>)

\* two tracks: a tempo track, and a controller after a note at the same tick as the tempo event
\* a file whose first set_tempo is 100000 microseconds per beat, 600 beats per minute
FastFile == MidiFile(480, << << <<0, SetTempo(100000)>>, <<0, NoteOn(0, 60, 100)>> >> >>)

TwoTrackFile == MidiFile(96, << << <<0, SetTempo(250000)>>, <<96, ControlChange(1, 7, 64)>> >>,
                                << <<0, Pitchwheel(15, -8192)>> >> >>)

\* three tracks whose events interleave: an earlier track with later ticks, ties between
\* tracks at ticks 10 and 20, and a tempo event between channel-voice events
ThreeTrackFile ==
    MidiFile(480, << << <<0, SetTempo(500000)>>, <<10, NoteOn(0, 60, 100)>>,
                        <<10, NoteOff(0, 60, 0)>> >>,
                     << <<10, ControlChange(1, 7, 64)>>, <<5, Pitchwheel(1, 0)>> >>,
                     << <<5, NoteOn(2, 62, 100)>>, <<5, SetTempo(250000)>>,
                        <<10, NoteOff(2, 62, 0)>> >> >>)

\* a file holding the single event msg at tick 0
ProbeFile(msg) == MidiFile(480, << << <<0, msg>> >> >>)

(***************************************************************************)
(* State.                                                                  *)
(***************************************************************************)
VARIABLES
    \* OSCMIDIApp.__init__, lines 196-216
    playing, paused, request_stop, looping,
    tempo, tempo_microseconds_per_beat,
    midi_playlist, current_playlist_index,
    sent_messages,
    osc_client, osc_server, dispatcher,
    midi_in, midi_out,
    lock,
    start_button,
    \* self.thread (play): the thread last started, 0 while the attribute is not set
    thread,
    \* the player threads: pc and the locals of _play_playlist / _play_single_midi
    player,
    \* the listener threads (run_midi_input): pc
    listener,
    \* the Qt main thread: idle in the event loop, inside a join, or blocked on the lock
    ui,
    \* the surroundings: clock, files on disk, the event the MIDI device delivers, the
    \* message an OSC peer sends, what went out through osc_client and through midi_out
    now, disk, midi_event, osc_packet, osc_sent, midi_sent,
    \* how the last run of handle_osc_message ended
    osc_outcome,
    \* current_playlist_index as skip_forward / skip_back found it when it was last called
    skip_from,
    \* the form: the 16 Ch checkbox, the channel menu and the tempo slider
    ch16_checkbox, channel_menu, tempo_slider,
    \* QTimer.singleShot(100, self.start_server) is pending
    timer,
    \* the thread attributes of the session and what save_config last wrote for the channel
    osc_server_thread, midi_input_thread, saved_config,
    \* the locals of the listener threads: the port iterated, the tuple about to be appended
    listener_local,
    \* the references stop_server saves under the lock for the shutdown outside it
    stop_local

vars == <<playing, paused, request_stop, looping, tempo, tempo_microseconds_per_beat,
          midi_playlist, current_playlist_index, sent_messages, osc_client, osc_server,
          dispatcher, midi_in, midi_out, lock, start_button, thread, player, listener,
          ui, now, disk, midi_event, osc_packet, osc_sent, midi_sent, osc_outcome,
          skip_from, ch16_checkbox, channel_menu, tempo_slider, timer, osc_server_thread,
          midi_input_thread, saved_config, listener_local, stop_local>>

flagVars == <<playing, paused, request_stop>>
tempoVars == <<tempo, tempo_microseconds_per_beat, tempo_slider>>
sessionVars == <<osc_client, osc_server, dispatcher, midi_in, midi_out, start_button,
                 osc_server_thread, midi_input_thread, saved_config>>
formVars == <<ch16_checkbox, channel_menu>>
restVars == <<formVars, timer, listener_local, stop_local>>
envVars == <<disk, midi_event, osc_packet>>
wireVars == <<osc_sent, midi_sent, osc_outcome>>

Threads == 1..MaxThreads
Listeners == 1..MaxListeners

\* a number as Python's float: the exact quotient num / den
Ratio(num, den) == [num |-> num, den |-> den]

\* a player thread: where it is, and its locals current_file (as read), the position in
\* messages, previous_abs_time, the tempo read for the delay, msg_time and when the sleep ends
DeadPlayer == [pc |-> "dead", file |-> Unreadable, cursor |-> 0, previous_abs_time |-> 0,
               tempo |-> Ratio(0, 1), msg_time |-> 0, wake |-> 0]

Packet(address, args) == [address |-> address, args |-> args]
NoPacket == Packet(<<>>, <<>>)

\* what went out through osc_client: how many messages, the last one, the MIDI message
\* it was made of, the task that sent it and when
NoOscSent == [n |-> 0, last |-> NoPacket, of |-> NoMessage, by |-> "None", at |-> 0]

\* what went out through midi_out: how many messages, the last one, the packet it was made of
NoMidiSent == [n |-> 0, last |-> NoMessage, of |-> NoPacket, at |-> 0]

\* the record of one history entry
SentRecord(address, args, kind, at) == [address |-> address, args |-> args, kind |-> kind, at |-> at]

\* no tuple
NoRecord == SentRecord(<<>>, <<>>, "None", 0)

\* a listener thread that iterates no port and holds no tuple
NoLocal == [port |-> "None", shared |-> FALSE, record |-> NoRecord]

\* the locals of stop_server when every reference it saved was None
NothingSaved == [osc_server |-> "None", osc_server_thread |-> "None", midi_input_thread |-> 0,
                 midi_out |-> "None", midi_in |-> "None"]

\* the state OSCMIDIApp.__init__ leaves, with the surroundings given
Constructed(files, event, packet) ==
    /\ playing = FALSE
    /\ looping = FALSE
    /\ tempo = DefaultTempo
    /\ tempo_microseconds_per_beat = Ratio(DefaultMicrosecondsPerBeat, 1)
    /\ paused = FALSE
    /\ request_stop = FALSE
    /\ midi_playlist = <<>>
    /\ current_playlist_index = 0
    /\ sent_messages = <<>>
    /\ osc_client = None
    /\ osc_server = None
    /\ dispatcher = {}
    /\ midi_in = None
    /\ midi_out = None
    /\ lock = "free"
    /\ start_button = "Start Server"
    /\ thread = 0
    /\ player = [t \in Threads |-> DeadPlayer]
    /\ listener = [i \in Listeners |-> "dead"]
    /\ ui = "idle"
    /\ now = 0
    /\ disk = files
    /\ midi_event = event
    /\ osc_packet = packet
    /\ osc_sent = NoOscSent
    /\ midi_sent = NoMidiSent
    /\ osc_outcome = "None"
    /\ skip_from = 0
    /\ ch16_checkbox = FALSE
    /\ channel_menu = 1
    /\ tempo_slider = DefaultTempo
    /\ timer = FALSE
    /\ osc_server_thread = None
    /\ midi_input_thread = 0
    /\ saved_config = 0
    /\ listener_local = [i \in Listeners |-> NoLocal]
    /\ stop_local = NothingSaved

Init == Constructed({NoteFile}, NoteOn(0, 60, 100),
                    Packet(Address(1, S_note), <<IntArg(60)>>))

(***************************************************************************)
(* The history of sent messages: collections.deque(maxlen=100).            *)
(***************************************************************************)
\* while self.sent_messages and (current_time - self.sent_messages[0][3] > 0.1): popleft()
RECURSIVE evict_old(_, _)
evict_old(q, current_time) ==
    IF Len(q) > 0 /\ current_time - q[1].at > HistoryWindow
    THEN evict_old(Tail(q), current_time) ELSE q

\* deque.append without maxlen: the variant C12 is checked against
deque_append_unbounded(q, rec) == Append(q, rec)

\* deque.append on a deque with maxlen
deque_append(q, rec) == IF Len(q) >= HistoryMaxLen THEN Tail(q) \o <<rec>> ELSE Append(q, rec)

\* osc_client.send_message(address, value) with no append after it: the variant C15 is
\* checked against
EmitWithin_unrecorded(limit, m, of, by) ==
    /\ osc_sent.n < limit
    /\ osc_sent' = [n |-> osc_sent.n + 1, last |-> Packet(m.address, m.args), of |-> of,
                    by |-> by, at |-> now]
    /\ UNCHANGED sent_messages

\* osc_client.send_message(address, value) followed by sent_messages.append(...), while
\* fewer than `limit` messages went out
EmitWithin(limit, m, of, by) ==
    /\ osc_sent.n < limit
    /\ osc_sent' = [n |-> osc_sent.n + 1, last |-> Packet(m.address, m.args), of |-> of,
                    by |-> by, at |-> now]
    /\ sent_messages' = deque_append(sent_messages, SentRecord(m.address, m.args, m.kind, now))

Emit(m, of, by) == EmitWithin(MaxOscSent, m, of, by)

(***************************************************************************)
(* Session start (start_server) and the listener thread (run_midi_input).  *)
(***************************************************************************)
AllChannels == 1..16

\* the channels the channel_menu combo box offers that the model selects among
MenuChannels == {1, 2, 16}

StartOutcomes == {"bad_ports", "no_device", "port_in_use", "bind_error",
                  "out_open_error", "in_open_error", "ok"}

FreeListener == CHOOSE i \in Listeners : listener[i] = "dead"

\* routes for every channel whatever the checkbox says: the variant C16 is checked against
mapped_channels_all(ch16, selected_ch) == AllChannels

\* the routes start_server maps: every channel in 16 Ch mode, else the selected one
mapped_channels(ch16, selected_ch) == IF ch16 THEN AllChannels ELSE {selected_ch}

\* the body of start_server under `with self.lock`, with the form fields and the devices
\* behaving as `outcome` says; ch16 and selected_ch are the 16 Ch checkbox and the
\* channel menu
start_server_body(outcome, ch16, selected_ch) ==
    /\ ui = "idle"
    /\ lock = "free"
    /\ UNCHANGED <<flagVars, looping, tempoVars, midi_playlist, current_playlist_index,
                   sent_messages, thread, player, now, envVars, skip_from, formVars,
                   listener_local, stop_local, wireVars>>
    /\ IF start_button = "Start Server"
       THEN /\ UNCHANGED <<lock, ui>>
            /\ CASE outcome \in {"bad_ports", "no_device"} ->
                        UNCHANGED <<sessionVars, listener>>
                 [] outcome \in {"port_in_use", "bind_error"} ->
                        /\ dispatcher' = mapped_channels(ch16, selected_ch)
                        /\ UNCHANGED <<osc_client, osc_server, midi_in, midi_out,
                                       start_button, osc_server_thread, midi_input_thread,
                                       saved_config, listener>>
                 [] outcome = "out_open_error" ->
                        /\ midi_out = None
                        /\ dispatcher' = mapped_channels(ch16, selected_ch)
                        /\ osc_server' = "serving"
                        /\ osc_server_thread' = "serving"
                        /\ osc_client' = "client"
                        /\ UNCHANGED <<midi_in, midi_out, start_button, midi_input_thread,
                                       saved_config, listener>>
                 [] outcome = "in_open_error" ->
                        /\ midi_in = None
                        /\ dispatcher' = mapped_channels(ch16, selected_ch)
                        /\ osc_server' = "serving"
                        /\ osc_server_thread' = "serving"
                        /\ osc_client' = "client"
                        /\ midi_out' = IF midi_out = None THEN "open" ELSE midi_out
                        /\ UNCHANGED <<midi_in, start_button, midi_input_thread,
                                       saved_config, listener>>
                 [] outcome = "ok" ->
                        /\ \E i \in Listeners : listener[i] = "dead"
                        /\ dispatcher' = mapped_channels(ch16, selected_ch)
                        /\ osc_server' = "serving"
                        /\ osc_server_thread' = "serving"
                        /\ osc_client' = "client"
                        /\ midi_out' = IF midi_out = None THEN "open" ELSE midi_out
                        /\ midi_in' = IF midi_in = None THEN "open" ELSE midi_in
                        /\ midi_input_thread' = FreeListener
                        /\ listener' = [listener EXCEPT ![FreeListener] = "starting"]
                        /\ saved_config' = IF ch16 THEN saved_config ELSE selected_ch
                        /\ start_button' = "Stop Server"
       ELSE \* self.stop_server() is called with self.lock held: its `with self.lock`
            \* blocks the main thread on the non-reentrant lock
            /\ lock' = "ui"
            /\ ui' = "blocked"
            /\ UNCHANGED <<sessionVars, listener>>

\* start_server, called by the click on the start button
start_server(outcome, ch16, selected_ch) ==
    /\ start_server_body(outcome, ch16, selected_ch)
    /\ UNCHANGED timer

\* run_midi_input, lines 702-704: the checks before the loop
listener_begin(i) ==
    /\ listener[i] = "starting"
    /\ listener' = [listener EXCEPT ![i] = IF midi_in = None \/ osc_client = None
                                           THEN "dead" ELSE "reading"]
    \* `for msg in self.midi_in` iterates the port object self.midi_in names at this moment
    /\ listener_local' = [listener_local EXCEPT ![i] =
                              IF midi_in = None \/ osc_client = None THEN NoLocal
                              ELSE [port |-> midi_in, shared |-> TRUE, record |-> NoRecord]]
    /\ UNCHANGED <<flagVars, looping, tempoVars, midi_playlist, current_playlist_index,
                   sent_messages, sessionVars, lock, thread, player, ui, now, envVars, skip_from,
                   formVars, timer, stop_local, wireVars>>

\* run_midi_input, lines 707-742: one turn of the loop, on the event the device delivers
listener_receive(i) ==
    /\ listener[i] = "reading"
    /\ listener_local[i].port = "open"
    /\ UNCHANGED <<flagVars, looping, tempoVars, midi_playlist, current_playlist_index,
                   sessionVars, lock, thread, player, ui, now, envVars, skip_from, formVars,
                   timer, stop_local, midi_sent, osc_outcome>>
    /\ IF start_button # "Stop Server"
       THEN /\ listener' = [listener EXCEPT ![i] = "dead"]
            /\ listener_local' = [listener_local EXCEPT ![i] = NoLocal]
            /\ UNCHANGED <<osc_sent, sent_messages>>
       ELSE LET m == listener_encode(midi_event) IN
            IF m = NoNetMsg
            THEN UNCHANGED <<listener, listener_local, osc_sent, sent_messages>>
            ELSE IF osc_client = None
                 THEN \* AttributeError: nothing in run_midi_input catches it
                      /\ listener' = [listener EXCEPT ![i] = "dead"]
                      /\ listener_local' = [listener_local EXCEPT ![i] = NoLocal]
                      /\ UNCHANGED <<osc_sent, sent_messages>>
                 ELSE /\ Emit(m, midi_event, "listener")
                      /\ UNCHANGED <<listener, listener_local>>

(***************************************************************************)
(* Session stop (stop_server, toggle_16_channels, quit_app) and the device *)
(* menus (change_midi_input, change_midi_output).                          *)
(***************************************************************************)
playbackVars == <<flagVars, looping, tempoVars, midi_playlist, current_playlist_index,
                  thread, player, skip_from>>

\* port.close() on the object self.midi_in names: the listeners iterating it see it closed
close_shared(locals) ==
    [i \in Listeners |-> IF locals[i].shared THEN [locals[i] EXCEPT !.port = "closed"]
                         ELSE locals[i]]

\* the object the listeners iterate is no longer the one self.midi_in names
unshare(locals) == [i \in Listeners |-> [locals[i] EXCEPT !.shared = FALSE]]

\* stop_server without `self.osc_client = None`: the variant C18 is checked against
stop_server_begin_keeps_client(caller) ==
    /\ ui = "idle"
    /\ lock = "free"
    /\ stop_local' = [osc_server |-> osc_server, osc_server_thread |-> osc_server_thread,
                      midi_input_thread |-> midi_input_thread, midi_out |-> midi_out,
                      midi_in |-> midi_in]
    /\ osc_server' = None
    /\ osc_server_thread' = None
    /\ midi_input_thread' = 0
    /\ midi_out' = None
    /\ midi_in' = None
    /\ start_button' = "Start Server"
    /\ ui' = caller
    /\ UNCHANGED <<playbackVars, sent_messages, osc_client, dispatcher, saved_config, lock,
                   listener, now, envVars, listener_local, wireVars>>

\* stop_server, lines 1066-1084: under the lock the references are saved and reset;
\* `caller` is the handler that goes on after stop_server returns
stop_server_begin(caller) ==
    /\ ui = "idle"
    /\ lock = "free"
    /\ stop_local' = [osc_server |-> osc_server, osc_server_thread |-> osc_server_thread,
                      midi_input_thread |-> midi_input_thread, midi_out |-> midi_out,
                      midi_in |-> midi_in]
    /\ osc_server' = None
    /\ osc_server_thread' = None
    /\ midi_input_thread' = 0
    /\ midi_out' = None
    /\ midi_in' = None
    /\ osc_client' = None
    /\ start_button' = "Start Server"
    /\ ui' = caller
    /\ UNCHANGED <<playbackVars, sent_messages, dispatcher, saved_config, lock, listener, now,
                   envVars, listener_local, wireVars>>

\* stop_server, lines 1086-1112: outside the lock the server is shut down, the threads are
\* joined for at most a second each, and the ports are closed
stop_server_end ==
    /\ stop_local' = NothingSaved
    /\ listener_local' = IF stop_local.midi_in # None
                         THEN unshare(close_shared(listener_local))
                         ELSE listener_local
    /\ UNCHANGED <<playbackVars, sent_messages, sessionVars, lock, listener, now, envVars,
                   wireVars>>

\* toggle_16_channels(state)
toggle_16_channels ==
    /\ ui = "idle"
    /\ ch16_checkbox' = ~ch16_checkbox
    /\ UNCHANGED channel_menu
    /\ IF start_button = "Stop Server"
       THEN /\ stop_server_begin("toggle_16_channels")
            /\ UNCHANGED timer
       ELSE UNCHANGED <<playbackVars, sent_messages, sessionVars, lock, listener, ui, now,
                        envVars, timer, listener_local, stop_local, wireVars>>

\* toggle_16_channels, lines 537-539: stop_server returns and the restart is scheduled
toggle_16_channels_finish ==
    /\ ui = "toggle_16_channels"
    /\ stop_server_end
    /\ timer' = TRUE
    /\ ui' = "idle"
    /\ UNCHANGED formVars

\* QTimer.singleShot(100, self.start_server) fires
timer_start_server(outcome) ==
    /\ timer
    /\ timer' = FALSE
    /\ start_server_body(outcome, ch16_checkbox, channel_menu)

\* quit_app, up to the return of the lock in stop_server
quit_app ==
    /\ stop_server_begin("quit_app")
    /\ UNCHANGED <<formVars, timer>>

\* quit_app, lines 1126-1133: stop_server returns, self.midi_out and self.midi_in are
\* None by then, and the window is closed
quit_app_finish ==
    /\ ui = "quit_app"
    /\ stop_server_end
    /\ ui' = "closed"
    /\ timer' = FALSE
    /\ UNCHANGED formVars

\* the user picks another channel in channel_menu, which 16 Ch mode disables
select_channel(ch) ==
    /\ ui = "idle"
    /\ ~ch16_checkbox
    /\ channel_menu' = ch
    /\ UNCHANGED <<playbackVars, sent_messages, sessionVars, lock, listener, ui, now, envVars,
                   ch16_checkbox, timer, listener_local, stop_local, wireVars>>

DeviceOutcomes == {"opened", "failed", "empty"}

\* change_midi_input, with the menu left empty or mido.open_input doing as `outcome` says
change_midi_input(outcome) ==
    /\ ui = "idle"
    /\ lock = "free"
    /\ midi_in' = IF outcome = "opened" THEN "open"
                  ELSE IF midi_in = None THEN None ELSE "closed"
    /\ listener_local' = LET closed == IF midi_in # None THEN close_shared(listener_local)
                                       ELSE listener_local
                         IN  IF outcome = "opened" THEN unshare(closed) ELSE closed
    /\ UNCHANGED <<playbackVars, sent_messages, osc_client, osc_server, dispatcher, midi_out,
                   start_button, osc_server_thread, midi_input_thread, saved_config, lock,
                   listener, ui, now, envVars, formVars, timer, stop_local, wireVars>>

\* change_midi_output, likewise
change_midi_output(outcome) ==
    /\ ui = "idle"
    /\ lock = "free"
    /\ midi_out' = IF outcome = "opened" THEN "open"
                   ELSE IF midi_out = None THEN None ELSE "closed"
    /\ UNCHANGED <<playbackVars, sent_messages, osc_client, osc_server, dispatcher, midi_in,
                   start_button, osc_server_thread, midi_input_thread, saved_config, lock,
                   listener, ui, now, envVars, restVars, wireVars>>

\* run_midi_input, line 707: the iteration over a port that was closed ends, by the end
\* of the iterator or by the exception receive() raises, when the blocked read notices
listener_closed(i) ==
    /\ listener[i] = "reading"
    /\ listener_local[i].port = "closed"
    /\ listener' = [listener EXCEPT ![i] = "dead"]
    /\ listener_local' = [listener_local EXCEPT ![i] = NoLocal]
    /\ UNCHANGED <<playbackVars, sent_messages, sessionVars, lock, ui, now, envVars,
                   formVars, timer, stop_local, wireVars>>

\* the session alone: the start button, the restart timer, the 16 Ch checkbox, the
\* channel and device menus, quitting, and the listener threads
SessionNext ==
    \/ \E outcome \in StartOutcomes : start_server(outcome, ch16_checkbox, channel_menu)
    \/ \E outcome \in StartOutcomes : timer_start_server(outcome)
    \/ toggle_16_channels
    \/ toggle_16_channels_finish
    \/ quit_app
    \/ quit_app_finish
    \/ \E ch \in MenuChannels : select_channel(ch)
    \/ \E outcome \in DeviceOutcomes : change_midi_input(outcome)
    \/ \E outcome \in DeviceOutcomes : change_midi_output(outcome)
    \/ \E i \in Listeners : listener_begin(i)
    \/ \E i \in Listeners : listener_receive(i)
    \/ \E i \in Listeners : listener_closed(i)

\* the device delivers program changes, which run_midi_input reads and does not translate
SessionInit == Constructed({NoteFile}, ProgramChange(0, 5),
                           Packet(Address(1, S_note), <<IntArg(60)>>))

SpecSession == SessionInit /\ [][SessionNext]_vars

\* the session with its devices left alone: starts, the 16 Ch checkbox with its restart,
\* the channel menu, and the listener threads
RoutesNext ==
    \/ \E outcome \in StartOutcomes : start_server(outcome, ch16_checkbox, channel_menu)
    \/ \E outcome \in StartOutcomes : timer_start_server(outcome)
    \/ toggle_16_channels
    \/ toggle_16_channels_finish
    \/ \E ch \in MenuChannels : select_channel(ch)
    \/ \E i \in Listeners : listener_begin(i)
    \/ \E i \in Listeners : listener_receive(i)
    \/ \E i \in Listeners : listener_closed(i)

SpecRoutes == SessionInit /\ [][RoutesNext]_vars

(***************************************************************************)
(* The dispatcher callback (handle_osc_message).                           *)
(***************************************************************************)
\* the addresses start_server maps in the dispatcher, which is kept as the set of the
\* channels mapped (empty while self.dispatcher is None)
Routed(address) ==
    \E ch \in dispatcher :
        LET prefix == Address(ch, <<>>)
            rest == SubSeq(address, Len(prefix) + 1, Len(address))
        IN  /\ StartsAt(address, 1, prefix)
            /\ \/ rest = S_note
               \/ rest = S_noff
               \/ LET numeral == SubSeq(rest, Len(S_cc) + 1, Len(rest))
                  IN  /\ StartsAt(rest, 1, S_cc)
                      /\ AllDigits(numeral)
                      /\ \E cc_num \in {ParseNat(numeral)} \cap (0..127) :
                             numeral = FormatNat(cc_num)

\* a dispatcher callback that drops a packet found in the history: the variant C14 is
\* checked against
handled_unless_recent(history, address, args) ==
    LET match == RegexMatch(address)
        built == osc_decode(match, args)
        echo == \E k \in 1..Len(history) :
                    history[k].address = address /\ history[k].args = args
    IN  IF match.matched /\ ~paused /\ built.ok /\ midi_out = "open" /\ ~echo
        THEN [sent |-> TRUE, msg |-> built.msg, kind |-> built.kind, outcome |-> "sent"]
        ELSE [sent |-> FALSE, msg |-> NoMessage, kind |-> "None",
              outcome |-> IF ~match.matched THEN "invalid address"
                          ELSE IF paused THEN "paused" ELSE "error"]

\* what handle_osc_message does with a packet when the history it finds is `history`:
\* whether a MIDI message goes out, which one, the kind recorded, and what is logged
handled(history, address, args) ==
    LET match == RegexMatch(address)
        built == osc_decode(match, args)
    IN  IF match.matched /\ ~paused /\ built.ok /\ midi_out = "open"
        THEN [sent |-> TRUE, msg |-> built.msg, kind |-> built.kind, outcome |-> "sent"]
        ELSE [sent |-> FALSE, msg |-> NoMessage, kind |-> "None",
              outcome |-> IF ~match.matched THEN "invalid address"
                          ELSE IF paused THEN "paused" ELSE "error"]

\* handle_osc_message without `if self.paused: return`: the variant C9 is checked against
handle_osc_message_ignores_pause(address, args) ==
    /\ lock = "free"
    /\ UNCHANGED <<flagVars, looping, tempoVars, midi_playlist, current_playlist_index,
                   sessionVars, lock, thread, player, listener, ui, now, envVars, skip_from, restVars,
                   osc_sent>>
    /\ LET swept == evict_old(sent_messages, now)
           match == RegexMatch(address)
           built == osc_decode(match, args)
       IN  IF match.matched /\ built.ok /\ midi_out = "open"
           THEN /\ midi_sent.n < MaxMidiSent
                /\ midi_sent' = [n |-> midi_sent.n + 1, last |-> built.msg,
                                 of |-> Packet(address, args), at |-> now]
                /\ sent_messages' = deque_append(swept, SentRecord(address, args, built.kind, now))
                /\ osc_outcome' = "sent"
           ELSE /\ sent_messages' = swept
                /\ UNCHANGED midi_sent
                /\ osc_outcome' = IF ~match.matched THEN "invalid address" ELSE "error"

\* handle_osc_message(address, *args)
handle_osc_message(address, args) ==
    /\ lock = "free"
    /\ UNCHANGED <<flagVars, looping, tempoVars, midi_playlist, current_playlist_index,
                   sessionVars, lock, thread, player, listener, ui, now, envVars, skip_from, restVars, osc_sent>>
    /\ LET swept == evict_old(sent_messages, now)
           done == handled(swept, address, args)
       IN  IF done.sent
           THEN /\ midi_sent.n < MaxMidiSent
                /\ midi_sent' = [n |-> midi_sent.n + 1, last |-> done.msg,
                                 of |-> Packet(address, args), at |-> now]
                /\ sent_messages' = deque_append(swept, SentRecord(address, args, done.kind, now))
                /\ osc_outcome' = done.outcome
           ELSE /\ sent_messages' = swept
                /\ UNCHANGED midi_sent
                /\ osc_outcome' = done.outcome

\* the OSC server thread receives a datagram whose address the dispatcher routes
osc_receive(address, args) ==
    /\ osc_server = "serving"
    /\ Routed(address)
    /\ handle_osc_message(address, args)

toggle_pause ==
    /\ ui = "idle"
    /\ paused' = ~paused
    /\ UNCHANGED <<playing, request_stop, looping, tempoVars, midi_playlist,
                   current_playlist_index, sent_messages, sessionVars, lock, thread, player,
                   listener, now, envVars, skip_from, restVars, wireVars, ui>>

(***************************************************************************)
(* The playlist and the player controls.                                   *)
(***************************************************************************)
\* add_file_to_playlist / add_folder_to_playlist / handle_dropped_files, for one path
add_file(f) ==
    /\ ui = "idle"
    /\ f \in disk
    /\ Len(midi_playlist) < MaxPlaylist
    /\ midi_playlist' = Append(midi_playlist, f)
    /\ UNCHANGED <<flagVars, looping, tempoVars, current_playlist_index, sent_messages,
                   sessionVars, lock, thread, player, listener, ui, now, envVars, skip_from, restVars,
                   wireVars>>

FreeThread == CHOOSE t \in Threads : player[t].pc = "dead"

\* the body of play(): what it does to playing, request_stop, self.thread and the threads
play_body ==
    IF midi_playlist # <<>> /\ ~playing
    THEN /\ \E t \in Threads : player[t].pc = "dead"
         /\ playing' = TRUE
         /\ request_stop' = FALSE
         /\ thread' = FreeThread
         /\ player' = [player EXCEPT ![FreeThread] = [DeadPlayer EXCEPT !.pc = "loop"]]
    ELSE UNCHANGED <<playing, request_stop, thread, player>>

play ==
    /\ ui = "idle"
    /\ play_body
    /\ UNCHANGED <<paused, looping, tempoVars, midi_playlist, current_playlist_index,
                   sent_messages, sessionVars, lock, listener, ui, now, envVars, skip_from, restVars,
                   wireVars>>

\* stop without `self.midi_playlist.clear()`: the variant C7 is checked against
stop_keeps_playlist ==
    /\ ui = "idle"
    /\ IF playing
       THEN /\ playing' = FALSE
            /\ paused' = FALSE
            /\ request_stop' = TRUE
       ELSE UNCHANGED <<playing, paused, request_stop>>
    /\ current_playlist_index' = 0
    /\ UNCHANGED <<looping, tempoVars, midi_playlist, sent_messages, sessionVars, lock, thread,
                   player, listener, ui, now, envVars, skip_from, restVars, wireVars>>

stop ==
    /\ ui = "idle"
    /\ IF playing
       THEN /\ playing' = FALSE
            /\ paused' = FALSE
            /\ request_stop' = TRUE
       ELSE UNCHANGED <<playing, paused, request_stop>>
    /\ midi_playlist' = <<>>
    /\ current_playlist_index' = 0
    /\ UNCHANGED <<looping, tempoVars, sent_messages, sessionVars, lock, thread, player,
                   listener, ui, now, envVars, skip_from, restVars, wireVars>>

\* skip_forward / skip_back up to the join: lines 851-859 and 866-874
skip_begin(direction) ==
    /\ ui = "idle"
    /\ IF midi_playlist = <<>>
       THEN UNCHANGED <<playing, paused, request_stop, ui, skip_from>>
       ELSE /\ request_stop' = TRUE
            /\ playing' = FALSE
            /\ paused' = FALSE
            /\ ui' = direction
            /\ skip_from' = current_playlist_index
    /\ UNCHANGED <<looping, tempoVars, midi_playlist, current_playlist_index, sent_messages,
                   sessionVars, lock, thread, player, listener, now, envVars, restVars,
                   wireVars>>

\* the index skip_forward / skip_back computes
skip_index(direction) ==
    IF direction = "skip_forward"
    THEN (current_playlist_index + 1) % Len(midi_playlist)
    ELSE (current_playlist_index - 1) % Len(midi_playlist)

\* skip_forward / skip_back from the join on: self.thread has ended, or join(timeout=0.2)
\* has timed out with it alive; lines 861-863 and 876-878
skip_finish ==
    /\ ui \in {"skip_forward", "skip_back"}
    /\ current_playlist_index' = skip_index(ui)
    /\ play_body
    /\ ui' = "idle"
    /\ UNCHANGED <<paused, looping, tempoVars, midi_playlist, sent_messages, sessionVars,
                   lock, listener, now, envVars, skip_from, restVars, wireVars>>

toggle_looping ==
    /\ ui = "idle"
    /\ lock = "free"
    /\ looping' = ~looping
    /\ UNCHANGED <<flagVars, tempoVars, midi_playlist, current_playlist_index,
                   sent_messages, sessionVars, lock, thread, player, listener, ui, now,
                   envVars, skip_from, restVars, wireVars>>

\* change_tempo keeping microseconds per beat as a whole number: the variant C19 is
\* checked against
change_tempo_truncating(new_tempo) ==
    /\ ui = "idle"
    /\ IF new_tempo <= 0
       THEN UNCHANGED tempoVars
       ELSE /\ tempo_slider' = new_tempo
            /\ tempo' = new_tempo
            /\ tempo_microseconds_per_beat' = Ratio(60000000 \div new_tempo, 1)
    /\ UNCHANGED <<flagVars, looping, midi_playlist, current_playlist_index,
                   sent_messages, sessionVars, lock, thread, player, listener, ui, now,
                   envVars, skip_from, restVars, wireVars>>

\* update_tempo_display / change_tempo, for a slider value
change_tempo(new_tempo) ==
    /\ ui = "idle"
    /\ IF new_tempo <= 0
       THEN UNCHANGED tempoVars
       ELSE /\ tempo_slider' = new_tempo
            /\ tempo' = new_tempo
            /\ tempo_microseconds_per_beat' = Ratio(60000000, new_tempo)
    /\ UNCHANGED <<flagVars, looping, midi_playlist, current_playlist_index,
                   sent_messages, sessionVars, lock, thread, player, listener, ui, now,
                   envVars, skip_from, restVars, wireVars>>

(***************************************************************************)
(* The player thread: _play_playlist and _play_single_midi.                *)
(***************************************************************************)
\* abs_time of every message of a track, from the deltas
RECURSIVE AbsTimes(_, _)
AbsTimes(track, abs_time) ==
    IF track = <<>> THEN <<>>
    ELSE <<[abs_time |-> abs_time + track[1][1], msg |-> track[1][2]]>>
         \o AbsTimes(Tail(track), abs_time + track[1][1])

RECURSIVE AllTracks(_)
AllTracks(tracks) ==
    IF tracks = <<>> THEN <<>> ELSE AbsTimes(tracks[1], 0) \o AllTracks(Tail(tracks))

\* insertion of x before the elements of its own time: the variant C29 is checked against
RECURSIVE InsertByTime_before_ties(_, _)
InsertByTime_before_ties(sorted, x) ==
    IF sorted = <<>> THEN <<x>>
    ELSE IF sorted[Len(sorted)].abs_time < x.abs_time THEN Append(sorted, x)
    ELSE Append(InsertByTime_before_ties(SubSeq(sorted, 1, Len(sorted) - 1), x),
                sorted[Len(sorted)])

\* insertion of x behind every element that does not come after it (a stable sort's step)
RECURSIVE InsertByTime(_, _)
InsertByTime(sorted, x) ==
    IF sorted = <<>> THEN <<x>>
    ELSE IF sorted[Len(sorted)].abs_time <= x.abs_time THEN Append(sorted, x)
    ELSE Append(InsertByTime(SubSeq(sorted, 1, Len(sorted) - 1), x), sorted[Len(sorted)])

RECURSIVE SortByTime(_)
SortByTime(ms) ==
    IF ms = <<>> THEN <<>>
    ELSE InsertByTime(SortByTime(SubSeq(ms, 1, Len(ms) - 1)), ms[Len(ms)])

\* messages, lines 947-953
Messages(file) == SortByTime(AllTracks(file.tracks))

\* tick2second without the division by ticks_per_beat: the variant C1 is checked against
tick2second_per_tick(tick, ticks_per_beat, t) == tick * (t.num \div t.den)

\* mido.tick2second(tick, ticks_per_beat, tempo), in microseconds, tempo a Ratio
tick2second(tick, ticks_per_beat, t) ==
    LET d == t.den * ticks_per_beat
    IN  tick * (t.num \div d) + (tick * (t.num % d)) \div d

PlayerUnchanged == <<looping, tempoVars, midi_playlist, sessionVars, lock, thread,
                     listener, ui, now, envVars, skip_from, restVars, midi_sent, osc_outcome>>

\* _play_playlist, lines 924-930: the loop condition and the end-of-playlist test
player_loop(t) ==
    /\ player[t].pc = "loop"
    /\ IF playing /\ ~request_stop
       THEN IF current_playlist_index >= Len(midi_playlist)
            THEN IF looping
                 THEN /\ current_playlist_index' = 0
                      /\ player' = [player EXCEPT ![t].pc = "fetch"]
                 ELSE /\ player' = [player EXCEPT ![t].pc = "exit"]
                      /\ UNCHANGED current_playlist_index
            ELSE /\ player' = [player EXCEPT ![t].pc = "fetch"]
                 /\ UNCHANGED current_playlist_index
       ELSE /\ player' = [player EXCEPT ![t].pc = "exit"]
            /\ UNCHANGED current_playlist_index
    /\ UNCHANGED <<flagVars, sent_messages, osc_sent>>
    /\ UNCHANGED PlayerUnchanged

\* player_fetch with the error of MidiFile(file_path) left uncaught: the variant C22 is
\* checked against
player_fetch_raises(t) ==
    /\ player[t].pc = "fetch"
    /\ IF current_playlist_index >= Len(midi_playlist)
       THEN player' = [player EXCEPT ![t] = DeadPlayer]
       ELSE LET f == midi_playlist[current_playlist_index + 1] IN
            IF ~f.readable
            THEN player' = [player EXCEPT ![t] = DeadPlayer]
            ELSE IF Messages(f) = <<>>
                 THEN player' = [player EXCEPT ![t].pc = "advance"]
                 ELSE player' = [player EXCEPT ![t] =
                          [DeadPlayer EXCEPT !.pc = "check", !.file = f, !.cursor = 1]]
    /\ UNCHANGED <<flagVars, current_playlist_index, sent_messages, osc_sent>>
    /\ UNCHANGED PlayerUnchanged

\* lines 932-955: current_file = self.midi_playlist[index], MidiFile(file_path), messages
player_fetch(t) ==
    /\ player[t].pc = "fetch"
    /\ IF current_playlist_index >= Len(midi_playlist)
       THEN \* IndexError, which nothing in _play_playlist catches
            player' = [player EXCEPT ![t] = DeadPlayer]
       ELSE LET f == midi_playlist[current_playlist_index + 1] IN
            IF ~f.readable \/ Messages(f) = <<>>
            THEN player' = [player EXCEPT ![t].pc = "advance"]
            ELSE player' = [player EXCEPT ![t] =
                     [DeadPlayer EXCEPT !.pc = "check", !.file = f, !.cursor = 1]]
    /\ UNCHANGED <<flagVars, current_playlist_index, sent_messages, osc_sent>>
    /\ UNCHANGED PlayerUnchanged

\* lines 957-960: the cancellation test at the head of the loop over messages
player_check(t) ==
    /\ player[t].pc = "check"
    /\ player' = [player EXCEPT ![t].pc = IF ~playing \/ request_stop THEN "advance" ELSE "poll"]
    /\ UNCHANGED <<flagVars, current_playlist_index, sent_messages, osc_sent>>
    /\ UNCHANGED PlayerUnchanged

\* lines 962-967: the pause poll is left, the delay is computed and the sleep begins
player_delay(t) ==
    /\ player[t].pc = "poll"
    /\ ~(paused /\ playing /\ ~request_stop)
    /\ LET p == player[t]
           abs_time == Messages(p.file)[p.cursor].abs_time
           delta_ticks == abs_time - p.previous_abs_time
           msg_time == tick2second(delta_ticks, p.file.ticks_per_beat, tempo_microseconds_per_beat)
       IN  player' = [player EXCEPT ![t].pc = "sleep",
                                    ![t].tempo = tempo_microseconds_per_beat,
                                    ![t].msg_time = msg_time,
                                    ![t].wake = now + msg_time]
    /\ UNCHANGED <<flagVars, current_playlist_index, sent_messages, osc_sent>>
    /\ UNCHANGED PlayerUnchanged

\* where the loop over messages goes after the message at the cursor
NextMessage(p) == IF p.cursor >= Len(Messages(p.file)) THEN "advance" ELSE "check"

\* lines 968-1004: the sleep is over; the message is sent if it is a channel-voice message
player_emit_within(limit, t) ==
    /\ player[t].pc = "sleep"
    /\ LET p == player[t]
           m == Messages(p.file)[p.cursor]
           out == player_encode(m.msg)
           after == [p EXCEPT !.pc = NextMessage(p), !.cursor = p.cursor + 1,
                              !.previous_abs_time = m.abs_time]
       IN  IF out = NoNetMsg
           THEN /\ player' = [player EXCEPT ![t] = after]
                /\ UNCHANGED <<sent_messages, osc_sent>>
           ELSE IF osc_client = None
                THEN \* AttributeError, caught at line 1003: the file is given up
                     /\ player' = [player EXCEPT ![t].pc = "advance",
                                                  ![t].previous_abs_time = m.abs_time]
                     /\ UNCHANGED <<sent_messages, osc_sent>>
                ELSE /\ EmitWithin(limit, out, m.msg, "player")
                     /\ player' = [player EXCEPT ![t] = after]
    /\ UNCHANGED <<flagVars, current_playlist_index>>
    /\ UNCHANGED PlayerUnchanged

player_emit(t) == player_emit_within(MaxOscSent, t)

\* line 934: self.current_playlist_index += 1
player_advance(t) ==
    /\ player[t].pc = "advance"
    /\ current_playlist_index' = current_playlist_index + 1
    /\ player' = [player EXCEPT ![t].pc = "loop"]
    /\ UNCHANGED <<flagVars, sent_messages, osc_sent>>
    /\ UNCHANGED PlayerUnchanged

\* player_exit without `self.current_playlist_index = 0`: the variant C6 is checked against
player_exit_keeps_index(t) ==
    /\ player[t].pc = "exit"
    /\ playing' = FALSE
    /\ paused' = FALSE
    /\ player' = [player EXCEPT ![t] = DeadPlayer]
    /\ UNCHANGED <<request_stop, current_playlist_index, sent_messages, osc_sent>>
    /\ UNCHANGED PlayerUnchanged

\* lines 936-939: the end of _play_playlist
player_exit(t) ==
    /\ player[t].pc = "exit"
    /\ current_playlist_index' = 0
    /\ playing' = FALSE
    /\ paused' = FALSE
    /\ player' = [player EXCEPT ![t] = DeadPlayer]
    /\ UNCHANGED <<request_stop, sent_messages, osc_sent>>
    /\ UNCHANGED PlayerUnchanged

(***************************************************************************)
(* The player and its controls, with the session started from the form.    *)
(***************************************************************************)
PlayerStep(t) ==
    \/ player_loop(t)
    \/ player_fetch(t)
    \/ player_check(t)
    \/ player_delay(t)
    \/ player_emit(t)
    \/ player_advance(t)
    \/ player_exit(t)

Next ==
    \/ start_server("ok", FALSE, 1)
    \/ \E f \in disk : add_file(f)
    \/ play
    \/ stop
    \/ \E direction \in {"skip_forward", "skip_back"} : skip_begin(direction)
    \/ skip_finish
    \/ toggle_pause
    \/ toggle_looping
    \/ \E t \in Threads : PlayerStep(t)

Spec == Init /\ [][Next]_vars

(***************************************************************************)
(* The player under a clock.  A thread that is not sleeping, polling the   *)
(* pause flag or finished takes no time; the clock advances to the next    *)
(* wake-up, or by ClockQuantum when that comes first.                      *)
(***************************************************************************)
Blocked(t) ==
    \/ player[t].pc = "dead"
    \/ player[t].pc = "sleep" /\ player[t].wake > now
    \/ player[t].pc = "poll" /\ paused /\ playing /\ ~request_stop

Sleepers == {t \in Threads : player[t].pc = "sleep"}

NextWake == CHOOSE w \in {player[t].wake : t \in Sleepers} :
                \A t \in Sleepers : w <= player[t].wake

Elapse ==
    /\ \A t \in Threads : Blocked(t)
    /\ Sleepers # {}
    /\ now' = IF NextWake < now + ClockQuantum THEN NextWake ELSE now + ClockQuantum
    /\ now' <= MaxQuanta * ClockQuantum
    /\ UNCHANGED <<flagVars, looping, tempoVars, midi_playlist, current_playlist_index,
                   sent_messages, sessionVars, lock, thread, player, listener, ui,
                   envVars, skip_from, restVars, wireVars>>

\* time.sleep(msg_time) returns when msg_time has passed
timed_emit(t) ==
    /\ player[t].wake <= now
    /\ player_emit(t)

SliderTempos == {60, 120, 240}

TimedNext ==
    \/ start_server("ok", FALSE, 1)
    \/ add_file(NoteFile)
    \/ add_file(TwoTrackFile)
    \/ play
    \/ \E new_tempo \in SliderTempos : change_tempo(new_tempo)
    \/ \E t \in Threads : \/ player_loop(t)
                          \/ player_fetch(t)
                          \/ player_check(t)
                          \/ player_delay(t)
                          \/ timed_emit(t)
                          \/ player_advance(t)
                          \/ player_exit(t)
    \/ Elapse

TimedInit == Constructed({NoteFile, TwoTrackFile}, NoteOn(0, 60, 100),
                         Packet(Address(1, S_note), <<IntArg(60)>>))

SpecTimed == TimedInit /\ [][TimedNext]_vars

(***************************************************************************)
(* The codec applied to one event or one packet.  The initial state draws  *)
(* the event that the MIDI device delivers and the file on disk holds, or  *)
(* the packet an OSC peer sends.                                           *)
(***************************************************************************)
SampleChannels == 0..15
SampleData == {0, 60, 127}
SamplePitches == {-8192, 0, 8191}

ProbeEvents ==
    {NoteOn(ch, 60, v) : ch \in SampleChannels, v \in {0, 100}}
    \cup {NoteOn(0, n, 1) : n \in SampleData}
    \cup {NoteOff(ch, 60, 64) : ch \in SampleChannels}
    \cup {ControlChange(ch, 7, 64) : ch \in SampleChannels}
    \cup {ControlChange(0, c, v) : c \in SampleData, v \in SampleData}
    \cup {Aftertouch(ch, 127) : ch \in SampleChannels}
    \cup {Aftertouch(0, 0)}
    \cup {Pitchwheel(ch, 8191) : ch \in SampleChannels}
    \cup {Pitchwheel(0, p) : p \in SamplePitches}
    \cup {ProgramChange(0, 5), SetTempo(250000)}

\* addresses as a peer may write them: well formed, cut short, continued, out of range
ProbeAddresses ==
    {pre \o num \o cmd \o suf :
        pre \in {S_ch, <<"/", "c">>, <<"x">> \o S_ch},
        num \in {<<>>, <<"0">>, <<"1">>, <<"1", "6">>, <<"1", "7">>},
        cmd \in {S_note, S_noff, S_pressure, S_pitch, S_cc, S_cc \o <<"7">>,
                 S_cc \o <<"1", "2", "7">>, S_cc \o <<"1", "2", "8">>,
                 <<"n", "o", "t">>, <<>>},
        suf \in {<<>>, <<"x">>, <<"2">>}}

ProbeArgs ==
    {<<>>, <<IntArg(60)>>, <<IntArg(128)>>, <<IntArg(-1)>>, <<IntArg(60), IntArg(1)>>,
     <<FloatArg(60, TRUE)>>, <<FloatArg(60, FALSE)>>, <<StrArg(<<"6", "0">>)>>,
     <<StrArg(<<"a">>)>>}

ProbePackets ==
    {Packet(a, <<IntArg(60)>>) : a \in ProbeAddresses}
    \cup {Packet(Address(ch, cmd), args) :
             ch \in {1, 16}, cmd \in {S_note, S_cc \o <<"7">>, S_pitch}, args \in ProbeArgs}

DefaultEvent == NoteOn(0, 60, 100)
DefaultPacket == Packet(Address(1, S_note), <<IntArg(60)>>)

\* the callback run on the packet of the peer
osc_call == handle_osc_message(osc_packet.address, osc_packet.args)

\* the callback run on the last message the bridge sent, as a peer that echoes returns it
osc_echo ==
    /\ osc_sent.n > 0
    /\ handle_osc_message(osc_sent.last.address, osc_sent.last.args)

\* the OSC server receives the packet of the peer
osc_receive_packet == osc_receive(osc_packet.address, osc_packet.args)

\* encoding by the listener, decoding by the callback
CodecInit ==
    \/ \E e \in ProbeEvents : Constructed({ProbeFile(e)}, e, DefaultPacket)
    \/ \E k \in ProbePackets : Constructed({ProbeFile(DefaultEvent)}, DefaultEvent, k)

CodecNext ==
    \/ start_server("ok", TRUE, 1)
    \/ \E i \in Listeners : listener_begin(i) \/ listener_receive(i)
    \/ osc_call
    \/ osc_echo

SpecCodec == CodecInit /\ [][CodecNext]_vars

\* encoding by the listener and by the player
EncodeInit == \E e \in ProbeEvents : Constructed({ProbeFile(e)}, e, DefaultPacket)

EncodeNext ==
    \/ start_server("ok", TRUE, 1)
    \/ \E i \in Listeners : listener_begin(i) \/ listener_receive(i)
    \/ \E f \in disk : add_file(f)
    \/ play
    \/ \E t \in Threads : PlayerStep(t)

SpecEncode == EncodeInit /\ [][EncodeNext]_vars

\* the dispatcher at work while the pause flag is toggled
DispatchPackets ==
    {Packet(Address(1, S_note), <<IntArg(60)>>),
     Packet(Address(2, S_cc \o <<"7">>), <<IntArg(60)>>)}

DispatchInit == \E k \in DispatchPackets : Constructed({NoteFile}, DefaultEvent, k)

DispatchNext ==
    \/ \E ch16 \in BOOLEAN : start_server("ok", ch16, 1)
    \/ \E i \in Listeners : listener_begin(i) \/ listener_receive(i)
    \/ osc_receive_packet
    \/ toggle_pause
    \/ add_file(NoteFile)
    \/ play
    \/ \E t \in Threads : PlayerStep(t)

SpecDispatch == DispatchInit /\ [][DispatchNext]_vars

(***************************************************************************)
(* The history under load: test notes, the listener and the dispatcher     *)
(* callback append, the 50 ms timer sweeps, and the clock steps.           *)
(***************************************************************************)
\* send_test_note
send_test_note ==
    /\ ui = "idle"
    /\ IF osc_client = None
       THEN UNCHANGED <<osc_sent, sent_messages>>
       ELSE EmitWithin(MaxTestNotes,
                       NetMsg(Address(channel_menu, S_note), <<IntArg(TestNote)>>, "note_on"),
                       NoMessage, "test")
    /\ UNCHANGED <<playbackVars, sessionVars, lock, listener, ui, now, envVars, restVars,
                   midi_sent, osc_outcome>>

\* cleanup_sent_messages, run by cleanup_timer every 50 ms
cleanup_sent_messages ==
    /\ ui = "idle"
    /\ lock = "free"
    /\ sent_messages' = evict_old(sent_messages, now)
    /\ UNCHANGED <<playbackVars, sessionVars, lock, listener, ui, now, envVars, restVars,
                   wireVars>>

\* time.time() moves on by `step`, up to `limit`
clock_tick(step, limit) ==
    /\ now + step <= limit
    /\ now' = now + step
    /\ UNCHANGED <<playbackVars, sent_messages, sessionVars, lock, listener, ui, envVars,
                   restVars, wireVars>>

HistoryNext ==
    \/ start_server("ok", ch16_checkbox, channel_menu)
    \/ send_test_note
    \/ cleanup_sent_messages
    \* the clock steps and the peer's packets arrive once the history is about to fill
    \/ /\ osc_sent.n >= HistoryMaxLen - 1
       /\ clock_tick(ClockQuantum, MaxHistoryTicks * ClockQuantum)
    \/ \E i \in Listeners : listener_begin(i)
    \/ \E i \in Listeners : listener_receive(i)
    \/ /\ osc_sent.n >= HistoryMaxLen - 1
       /\ osc_receive(osc_packet.address, osc_packet.args)

SpecHistory == Init /\ [][HistoryNext]_vars

(***************************************************************************)
(* The history under a clock, with the append of the listener thread taken *)
(* as the program runs it: run_midi_input holds no lock, so between        *)
(* time.time() and sent_messages.append other threads may run.             *)
(***************************************************************************)
\* the steps of the clock between sweeps, and how far the clock goes
SweepQuantum == 5 * PausePoll
MaxSweepTicks == 3

\* the messages that go out while the file of three tracks is played
MaxMergeSent == 6

\* run_midi_input, lines 707-742, up to the evaluation of time.time(): listener_receive
\* without the append
listener_send(i) ==
    /\ listener[i] = "reading"
    /\ listener_local[i].port = "open"
    /\ UNCHANGED <<playbackVars, sent_messages, sessionVars, lock, ui, now, envVars, formVars,
                   timer, stop_local, midi_sent, osc_outcome>>
    /\ IF start_button # "Stop Server"
       THEN /\ listener' = [listener EXCEPT ![i] = "dead"]
            /\ listener_local' = [listener_local EXCEPT ![i] = NoLocal]
            /\ UNCHANGED osc_sent
       ELSE LET m == listener_encode(midi_event) IN
            IF m = NoNetMsg
            THEN UNCHANGED <<listener, listener_local, osc_sent>>
            ELSE IF osc_client = None
                 THEN /\ listener' = [listener EXCEPT ![i] = "dead"]
                      /\ listener_local' = [listener_local EXCEPT ![i] = NoLocal]
                      /\ UNCHANGED osc_sent
                 ELSE /\ osc_sent.n < MaxOscSent
                      /\ osc_sent' = [n |-> osc_sent.n + 1, last |-> Packet(m.address, m.args),
                                      of |-> midi_event, by |-> "listener", at |-> now]
                      /\ listener_local' = [listener_local EXCEPT ![i].record =
                                                SentRecord(m.address, m.args, m.kind, now)]
                      /\ listener' = [listener EXCEPT ![i] = "appending"]

\* run_midi_input: sent_messages.append of the tuple built by listener_send
listener_append(i) ==
    /\ listener[i] = "appending"
    /\ sent_messages' = deque_append(sent_messages, listener_local[i].record)
    /\ listener_local' = [listener_local EXCEPT ![i].record = NoRecord]
    /\ listener' = [listener EXCEPT ![i] = "reading"]
    /\ UNCHANGED <<playbackVars, sessionVars, lock, ui, now, envVars, formVars, timer,
                   stop_local, wireVars>>

SweepNext ==
    \/ start_server("ok", ch16_checkbox, channel_menu)
    \/ \E i \in Listeners : listener_begin(i)
    \/ \E i \in Listeners : listener_send(i)
    \/ \E i \in Listeners : listener_append(i)
    \/ /\ osc_sent.n < MaxOscSent
       /\ send_test_note
    \/ cleanup_sent_messages
    \/ osc_receive(osc_packet.address, osc_packet.args)
    \/ clock_tick(SweepQuantum, MaxSweepTicks * SweepQuantum)
    \* one file is played
    \/ /\ midi_playlist = <<>>
       /\ add_file(NoteFile)
    \/ play
    \/ \E t \in Threads : PlayerStep(t)

SpecSweep == Init /\ [][SweepNext]_vars

(***************************************************************************)
(* The tempo: the slider (update_tempo_display, change_tempo) and the      *)
(* Reset Tempo button (reset_tempo).                                       *)
(***************************************************************************)
\* tempo_slider.setRange(20, 420)
SliderMinimum == 20
SliderMaximum == 420

\* QSlider.setValue keeps the value within the range
clamp(value) ==
    IF value < SliderMinimum THEN SliderMinimum
    ELSE IF value > SliderMaximum THEN SliderMaximum ELSE value

\* the set_tempo messages of a file, track after track, as reset_tempo meets them
RECURSIVE tempo_messages(_)
tempo_messages(tracks) ==
    IF tracks = <<>> THEN <<>>
    ELSE SelectSeq([k \in 1..Len(Head(tracks)) |-> Head(tracks)[k][2]],
                   LAMBDA m : m.type = "set_tempo") \o tempo_messages(Tail(tracks))

\* tempo_slider.setValue(self.tempo) after the two fields were set to beats and micros:
\* when the clamped value differs from the slider's, valueChanged runs
\* update_tempo_display and so change_tempo on it; otherwise nothing more happens
set_slider(beats, micros) ==
    IF clamp(beats) # tempo_slider
    THEN /\ tempo_slider' = clamp(beats)
         /\ tempo' = clamp(beats)
         /\ tempo_microseconds_per_beat' = Ratio(60000000, clamp(beats))
    ELSE /\ tempo' = beats
         /\ tempo_microseconds_per_beat' = micros
         /\ UNCHANGED tempo_slider

\* reset_tempo
reset_tempo ==
    /\ ui = "idle"
    /\ IF midi_playlist = <<>> \/ ~midi_playlist[1].readable
       THEN UNCHANGED tempoVars
       ELSE LET found == tempo_messages(midi_playlist[1].tracks) IN
            IF found = <<>>
            THEN set_slider(DefaultTempo, Ratio(DefaultMicrosecondsPerBeat, 1))
            ELSE IF found[1].tempo = 0
                 THEN \* ZeroDivisionError after the first assignment
                      /\ tempo_microseconds_per_beat' = Ratio(0, 1)
                      /\ UNCHANGED <<tempo, tempo_slider>>
                 ELSE set_slider(60000000 \div found[1].tempo, Ratio(found[1].tempo, 1))
    /\ UNCHANGED <<flagVars, looping, midi_playlist, current_playlist_index,
                   sent_messages, sessionVars, lock, thread, player, listener, ui, now,
                   envVars, skip_from, restVars, wireVars>>

TempoInit == Constructed({NoteFile, TwoTrackFile, FastFile, Unreadable}, NoteOn(0, 60, 100),
                         Packet(Address(1, S_note), <<IntArg(60)>>))

TempoNext ==
    \/ \E new_tempo \in SliderMinimum..SliderMaximum : change_tempo(new_tempo)
    \/ reset_tempo
    \* reset_tempo reads the first file of the playlist only
    \/ /\ midi_playlist = <<>>
       /\ \E f \in disk : add_file(f)

SpecTempo == TempoInit /\ [][TempoNext]_vars

(***************************************************************************)
(* One player run over a playlist with a file that cannot be read, started *)
(* before or after the session.                                            *)
(***************************************************************************)
ErrorsInit == Constructed({NoteFile, Unreadable}, NoteOn(0, 60, 100),
                          Packet(Address(1, S_note), <<IntArg(60)>>))

ErrorsNext ==
    \/ start_server("ok", ch16_checkbox, channel_menu)
    \/ \E f \in disk : add_file(f)
    \/ play
    \/ toggle_looping
    \/ \E t \in Threads : PlayerStep(t)

SpecErrors == ErrorsInit /\ [][ErrorsNext]_vars

(***************************************************************************)
(* The player on a file of several tracks, with pauses.                    *)
(***************************************************************************)
MergeInit == Constructed({ThreeTrackFile}, NoteOn(0, 60, 100),
                         Packet(Address(1, S_note), <<IntArg(60)>>))

MergeStep(t) ==
    \/ player_loop(t)
    \/ player_fetch(t)
    \/ player_check(t)
    \/ player_delay(t)
    \/ player_emit_within(MaxMergeSent, t)
    \/ player_advance(t)
    \/ player_exit(t)

MergeNext ==
    \/ start_server("ok", ch16_checkbox, channel_menu)
    \/ \E f \in disk : add_file(f)
    \/ play
    \/ toggle_pause
    \/ \E t \in Threads : MergeStep(t)

SpecMerge == MergeInit /\ [][MergeNext]_vars

(***************************************************************************)
(* Session stop against the listener and the player.  A turn of the        *)
(* listener's loop in two steps: the test of the start button, and the     *)
(* send through self.osc_client with the append.                           *)
(***************************************************************************)
\* run_midi_input, lines 707-711: a message is read, the button and the type are tested
listener_check(i) ==
    /\ listener[i] = "reading"
    /\ listener_local[i].port = "open"
    /\ IF start_button # "Stop Server"
       THEN /\ listener' = [listener EXCEPT ![i] = "dead"]
            /\ listener_local' = [listener_local EXCEPT ![i] = NoLocal]
       ELSE /\ listener' = [listener EXCEPT ![i] =
                                IF listener_encode(midi_event) = NoNetMsg THEN "reading"
                                ELSE "checked"]
            /\ UNCHANGED listener_local
    /\ UNCHANGED <<playbackVars, sent_messages, sessionVars, lock, ui, now, envVars, formVars,
                   timer, stop_local, wireVars>>

\* run_midi_input, lines 712-742: self.osc_client.send_message and the append; on an unset
\* client the AttributeError ends the thread, nothing in run_midi_input catching it
listener_forward(i) ==
    /\ listener[i] = "checked"
    /\ IF osc_client = None
       THEN /\ listener' = [listener EXCEPT ![i] = "dead"]
            /\ listener_local' = [listener_local EXCEPT ![i] = NoLocal]
            /\ UNCHANGED <<osc_sent, sent_messages>>
       ELSE /\ Emit(listener_encode(midi_event), midi_event, "listener")
            /\ listener' = [listener EXCEPT ![i] = "reading"]
            /\ UNCHANGED listener_local
    /\ UNCHANGED <<playbackVars, sessionVars, lock, ui, now, envVars, formVars, timer,
                   stop_local, midi_sent, osc_outcome>>

DetachNext ==
    \/ start_server("ok", ch16_checkbox, channel_menu)
    \/ timer_start_server("ok")
    \/ toggle_16_channels
    \/ toggle_16_channels_finish
    \/ \E i \in Listeners : listener_begin(i)
    \/ \E i \in Listeners : listener_check(i)
    \/ \E i \in Listeners : listener_forward(i)
    \/ \E i \in Listeners : listener_closed(i)
    \* one file is played, the playback starting while the session runs
    \/ /\ midi_playlist = <<>>
       /\ add_file(NoteFile)
    \/ /\ osc_client # None
       /\ play
    \/ \E t \in Threads : PlayerStep(t)

SpecDetach == Init /\ [][DetachNext]_vars

(***************************************************************************)
(* Play, pause and stop, with player threads that keep being scheduled:    *)
(* a thread that can take a step takes it, its sleeps being finite.        *)
(***************************************************************************)
StopNext ==
    \* the session is started once
    \/ /\ start_button = "Start Server"
       /\ start_server("ok", FALSE, 1)
    \* one file is played at a time
    \/ /\ midi_playlist = <<>>
       /\ add_file(NoteFile)
    \/ play
    \/ stop
    \/ toggle_pause
    \/ \E t \in Threads : PlayerStep(t)

SpecStop == Init /\ [][StopNext]_vars /\ \A t \in Threads : WF_vars(PlayerStep(t))

(***************************************************************************)
(* The claims.                                                             *)
(***************************************************************************)
\* the player threads that exist
Live == {t \in Threads : player[t].pc # "dead"}

\* a tempo setting as a whole number of microseconds per beat
TempoValue(t) == t.num \div t.den

\* deltaTicks * microsecondsPerBeat / (ticksPerBeat * 1_000_000) seconds, in microseconds
ExpectedDelay(delta_ticks, ticks_per_beat, t) ==
    (delta_ticks * TempoValue(t)) \div ticks_per_beat

\* the ticks between the message at the cursor of player p and the one before it
DeltaTicks(p) ==
    Messages(p.file)[p.cursor].abs_time
    - (IF p.cursor = 1 THEN 0 ELSE Messages(p.file)[p.cursor - 1].abs_time)

T_note == <<"/", "c", "h", "1", "n", "o", "t", "e">>
T_noff == <<"/", "c", "h", "1", "n", "o", "f", "f">>

\* a delay in progress ends ExpectedDelay after the emission of the event before it
C1_Sleeping ==
    \A t \in Threads :
        LET p == player[t] IN
        p.pc = "sleep" =>
            /\ p.msg_time = ExpectedDelay(DeltaTicks(p), p.file.ticks_per_beat, p.tempo)
            /\ p.cursor > 1 /\ Messages(p.file)[p.cursor - 1].msg.type \in VoiceTypes
               => /\ osc_sent.of = Messages(p.file)[p.cursor - 1].msg
                  /\ p.wake = osc_sent.at + ExpectedDelay(DeltaTicks(p), p.file.ticks_per_beat, p.tempo)

\* the file of 480 ticks per beat played at 500000 microseconds per beat
C1_Example ==
    \A t \in Threads :
        LET p == player[t] IN
        /\ p.file = NoteFile /\ p.cursor = 2 /\ osc_sent.n = 1
           => /\ osc_sent.last = Packet(T_note, <<IntArg(60)>>)
              /\ osc_sent.at = 0
        /\ p.file = NoteFile /\ p.cursor = 3 /\ osc_sent.n = 2 /\ TempoValue(p.tempo) = 500000
           => sent_messages = <<SentRecord(T_note, <<IntArg(60)>>, "note_on", 0),
                                SentRecord(T_noff, <<IntArg(60)>>, "note_off", 500000)>>

\* a delay starts with the tempo setting of that moment, and the event is emitted when it ends
C1_Steps ==
    \A t \in Threads :
        /\ player[t].pc = "poll" /\ player'[t].pc = "sleep"
           => /\ player'[t].tempo = tempo_microseconds_per_beat
              /\ player'[t].wake = now + ExpectedDelay(DeltaTicks(player[t]),
                                        player[t].file.ticks_per_beat, tempo_microseconds_per_beat)
        /\ player[t].pc = "sleep" /\ player'[t].pc # "sleep" /\ osc_sent'.n = osc_sent.n + 1
           => /\ now = player[t].wake
              /\ osc_sent'.at = player[t].wake

\* C1: playing the file with 480 ticks per beat, NoteOn(0, 60, 100) at tick 0 and NoteOff(60)
\* at tick 480, at 500000 microseconds per beat emits /ch1note [60] at time 0 and /ch1noff [60]
\* at time 0.5 s; every event of a player run is emitted deltaTicks * microsecondsPerBeat /
\* ticksPerBeat microseconds after the one before it, with the tempo setting read when the
\* delay starts.
C1_PlayerTiming == [](C1_Sleeping /\ C1_Example) /\ [][C1_Steps]_vars

\* C1, reached: the two messages of the example are in the history, sent at 0 and at 0.5 s
C1_Witness ==
    /\ sent_messages = <<SentRecord(T_note, <<IntArg(60)>>, "note_on", 0),
                         SentRecord(T_noff, <<IntArg(60)>>, "note_off", 500000)>>
    /\ \E t \in Threads : player[t].file = NoteFile /\ player[t].cursor = 3
                          /\ TempoValue(player[t].tempo) = 500000

\* the events C2 speaks of
RoundTripEvent(e) ==
    /\ e.type \in VoiceTypes
    /\ e.channel \in 0..15
    /\ e.type = "note_on" => e.velocity > 0

\* same kind, same channel and the same note, controller and value, pressure or pitch
SameEvent(e, d) ==
    /\ d.type = e.type
    /\ d.channel = e.channel
    /\ CASE e.type \in {"note_on", "note_off"} -> d.note = e.note
         [] e.type = "control_change" -> d.control = e.control /\ d.value = e.value
         [] e.type = "aftertouch" -> d.value = e.value
         [] e.type = "pitchwheel" -> d.pitch = e.pitch

\* the channel number written in an address
AddressChannel(address) == ParseNat(DigitRun(address, 4))

\* channel c is written c + 1, in 1..16, and channel number N is read N - 1, in 0..15
C2_Channels ==
    /\ osc_sent.n > 0 => /\ AddressChannel(osc_sent.last.address) = osc_sent.of.channel + 1
                         /\ AddressChannel(osc_sent.last.address) \in 1..16
    /\ midi_sent.n > 0 => /\ midi_sent.last.channel = AddressChannel(midi_sent.of.address) - 1
                          /\ midi_sent.last.channel \in 0..15

\* the callback, run on what the listener sent for an event, sends that event
C2_Echo ==
    osc_echo /\ RoundTripEvent(osc_sent.of)
    => /\ osc_outcome' = "sent"
       /\ midi_sent'.of = osc_sent.last
       /\ SameEvent(osc_sent.of, midi_sent'.last)

\* C2: for every NoteOn with velocity > 0, NoteOff, ControlChange, Aftertouch and PitchBend on
\* every channel 0..15, handle_osc_message run on the address and argument that encoding the
\* event produced yields an event of the same kind, on the same 0-indexed channel, with the
\* same note, controller and value, pressure or pitch; channels 0..15 and channel numbers
\* 1..16 map onto each other one to one.
C2_RoundTrip == []C2_Channels /\ [][C2_Echo]_vars

\* C2, reached: a pitch bend on channel 15 has been encoded as /ch16pitch and decoded again
C2_Witness ==
    /\ osc_outcome = "sent"
    /\ osc_sent.of = Pitchwheel(15, 8191)
    /\ midi_sent.of = osc_sent.last
    /\ midi_sent.last = Pitchwheel(15, 8191)

\* the numerals of the channel numbers 1..16 and of the controllers written out
ChannelText ==
    << <<"1">>, <<"2">>, <<"3">>, <<"4">>, <<"5">>, <<"6">>, <<"7">>, <<"8">>, <<"9">>,
       <<"1", "0">>, <<"1", "1">>, <<"1", "2">>, <<"1", "3">>, <<"1", "4">>, <<"1", "5">>,
       <<"1", "6">> >>

ControllerText(c) ==
    CASE c = 0 -> <<"0">>
      [] c = 7 -> <<"7">>
      [] c = 60 -> <<"6", "0">>
      [] c = 127 -> <<"1", "2", "7">>

\* the table of the encoding
EncodeTable(e) ==
    LET ch == <<"/", "c", "h">> \o ChannelText[e.channel + 1] IN
    CASE e.type = "note_on" /\ e.velocity > 0 ->
             Packet(ch \o <<"n", "o", "t", "e">>, <<IntArg(e.note)>>)
      [] e.type = "note_off" \/ (e.type = "note_on" /\ e.velocity = 0) ->
             Packet(ch \o <<"n", "o", "f", "f">>, <<IntArg(e.note)>>)
      [] e.type = "control_change" ->
             Packet(ch \o <<"c", "c">> \o ControllerText(e.control), <<IntArg(e.value)>>)
      [] e.type = "aftertouch" ->
             Packet(ch \o <<"p", "r", "e", "s", "s", "u", "r", "e">>, <<IntArg(e.value)>>)
      [] e.type = "pitchwheel" ->
             Packet(ch \o <<"p", "i", "t", "c", "h">>, <<IntArg(e.pitch)>>)

\* what went out is what the table gives for the event, whichever task sent it
C3_Sent ==
    /\ osc_sent.n > 0 => /\ osc_sent.of.type \in VoiceTypes
                         /\ osc_sent.last = EncodeTable(osc_sent.of)
                         /\ Len(osc_sent.last.args) = 1
    /\ \A i \in 1..Len(sent_messages) :
           Packet(sent_messages[i].address, sent_messages[i].args) = EncodeTable(midi_event)

\* a channel-voice event handled by the listener or by the player sends exactly one message
C3_Steps ==
    /\ \A i \in Listeners :
           listener_receive(i) /\ listener[i] = "reading" /\ start_button = "Stop Server"
           /\ osc_client # None /\ midi_event.type \in VoiceTypes
           => /\ osc_sent'.n = osc_sent.n + 1
              /\ osc_sent'.last = EncodeTable(midi_event)
    /\ \A t \in Threads :
           player_emit(t) /\ osc_client # None
           /\ Messages(player[t].file)[player[t].cursor].msg.type \in VoiceTypes
           => /\ osc_sent'.n = osc_sent.n + 1
              /\ osc_sent'.last = EncodeTable(Messages(player[t].file)[player[t].cursor].msg)

\* C3: for every channel-voice event with channel c in 0..15 the listener and the player each
\* emit exactly one network message with one argument: NoteOn with velocity > 0 gives
\* /ch{c+1}note [note]; NoteOff, or NoteOn with velocity 0, gives /ch{c+1}noff [note];
\* ControlChange gives /ch{c+1}cc{controller} [value]; Aftertouch gives /ch{c+1}pressure
\* [value]; PitchBend gives /ch{c+1}pitch [pitch]; both paths give the same message for the
\* same event.
C3_EncodingTable == []C3_Sent /\ [][C3_Steps]_vars

\* C3, reached: the listener and then the player have sent /ch4noff [60] for a NoteOn with
\* velocity 0 on channel 3
C3_Witness ==
    /\ osc_sent.n = 2
    /\ osc_sent.by = "player"
    /\ osc_sent.of = NoteOn(3, 60, 0)
    /\ osc_sent.last = Packet(<<"/", "c", "h", "4", "n", "o", "f", "f">>, <<IntArg(60)>>)
    /\ listener[1] = "reading"
    /\ Len(sent_messages) = 2

\* the address grammar /ch<N><cmd>: N in 1..16, cmd one of note, noff, cc<M> with M in
\* 0..127, pressure, pitch
InGrammar(address) ==
    \E N \in 1..16 :
        LET prefix == <<"/", "c", "h">> \o ChannelText[N]
            rest == SubSeq(address, Len(prefix) + 1, Len(address))
            numeral == SubSeq(rest, 3, Len(rest))
        IN  /\ StartsAt(address, 1, prefix)
            /\ \/ rest \in {S_note, S_noff, S_pressure, S_pitch}
               \/ /\ StartsAt(rest, 1, S_cc)
                  /\ AllDigits(numeral)
                  /\ ParseNat(numeral) \in 0..127

\* a packet the callback may act on: an address of the grammar with an integer argument
Recognized(packet) ==
    /\ InGrammar(packet.address)
    /\ Len(packet.args) > 0
    /\ packet.args[1].ty = "int"

\* C4: for every address that does not match the grammar /ch<N><cmd>, strings that only begin
\* with a valid address included, and for every recognized address whose argument is missing
\* or not an integer, handle_osc_message sends no MIDI message and appends no record.
C4_UnrecognizedDropped ==
    /\ midi_sent.n > 0 => Recognized(midi_sent.of)
    /\ osc_outcome = "sent" => Recognized(midi_sent.of)

\* the index skip_forward / skip_back is to land on, from the index it found
SkipTarget(direction, i, K) == IF direction = "skip_forward" THEN (i + 1) % K ELSE (i - 1) % K

\* the step in which skip_forward / skip_back returns
C5_Step ==
    ui \in {"skip_forward", "skip_back"} /\ ui' = "idle"
    => /\ current_playlist_index' = SkipTarget(ui, skip_from, Len(midi_playlist))
       /\ playing'

\* C5: with a playlist of length K >= 1 and current index i, skip_forward restarts playback at
\* index (i + 1) mod K and skip_back at (i - 1) mod K, whether or not a player run is in
\* progress and whether or not it exits within the join timeout.
C5_SkipIndex == [][C5_Step]_vars

\* the end of the playlist seen by the loop of _play_playlist
EndOfPlaylist == playing /\ ~request_stop /\ current_playlist_index >= Len(midi_playlist)

\* no player thread exists: the index is 0
C6_Idle == Live = {} => current_playlist_index = 0

C6_Steps ==
    \A t \in Threads :
        \* a file completes
        /\ player[t].pc = "advance" /\ player'[t].pc # "advance"
           => current_playlist_index' = current_playlist_index + 1
        \* the index has reached the length of the playlist
        /\ player[t].pc = "loop" /\ player'[t].pc # "loop" /\ EndOfPlaylist
           => IF looping
              THEN current_playlist_index' = 0 /\ player'[t].pc = "fetch" /\ playing'
              ELSE player'[t].pc = "exit"
        \* playback halts
        /\ player[t].pc = "exit" /\ player'[t].pc # "exit"
           => current_playlist_index' = 0 /\ ~playing' /\ ~paused' /\ player'[t].pc = "dead"

\* C6: when a file completes the index advances by exactly one; when it has reached the
\* length of the playlist, playback continues at index 0 if looping is enabled, and halts
\* with the index reset to 0 if not; whenever no player runs the index is 0.
C6_IndexAdvance == []C6_Idle /\ [][C6_Steps]_vars

\* C6, reached: both files of a playlist of two have completed, looping is off and the
\* player is about to halt
C6_Witness ==
    \E t \in Threads :
        /\ player[t].pc = "exit"
        /\ EndOfPlaylist
        /\ ~looping
        /\ current_playlist_index = 2
        /\ osc_sent.n = 2

\* what a step of stop leaves
C7_Step ==
    stop => /\ midi_playlist' = <<>>
            /\ current_playlist_index' = 0
            /\ playing => ~playing' /\ ~paused' /\ request_stop'

\* C7: after stop() the playlist is empty and the index is 0, whether or not playback was
\* running; a stop of a running playback does not leave the pause flag set.
C7_StopClears == [][C7_Step]_vars

\* C7, reached: stop has been pressed during a run, whose thread has not yet ended
C7_Witness ==
    /\ midi_playlist = <<>>
    /\ current_playlist_index = 0
    /\ request_stop /\ ~playing /\ ~paused
    /\ \E t \in Threads : player[t].pc = "sleep"

\* a step in which a player run emits an event
C8_Step ==
    osc_sent'.n > osc_sent.n /\ osc_sent'.by = "player"
    => ~(paused /\ playing /\ ~request_stop)

\* C8: every emission by a player run happens in a state where the pause flag is not set
\* (paused, not cancelled), also for an event whose delay had started when pause was set.
C8_NoEmissionWhilePaused == [][C8_Step]_vars

\* the handling of a routed packet during a pause, and the sending of a MIDI message
C9_Step ==
    /\ osc_receive_packet /\ paused
       => /\ midi_sent' = midi_sent
          /\ sent_messages' = evict_old(sent_messages, now)
          /\ osc_outcome' = "paused"
    /\ midi_sent' # midi_sent
       => /\ ~paused
          /\ osc_receive_packet
          /\ midi_sent'.of = osc_packet
          /\ midi_sent'.n = midi_sent.n + 1

\* C9: a routed network message handled while paused is dropped: no MIDI message is sent and
\* no record is appended then, and nothing is delivered later: a MIDI message goes out only in
\* the handling of a packet that arrives while the pause flag is not set.
C9_PausedDropped == [][C9_Step]_vars

\* C9, reached: a routed packet was handled during a pause of a running playback, the pause
\* has ended and no MIDI message has gone out
C9_Witness ==
    /\ osc_outcome = "paused"
    /\ ~paused
    /\ playing
    /\ midi_sent.n = 0
    /\ Routed(osc_packet.address)

\* C10: in every reachable state at most one player task is running, under any sequence of
\* play, stop, skip_forward, skip_back and toggle_pause, also when a cancelled run does not
\* see its cancellation before the join times out and playback is restarted.
C10_OnePlayer == Cardinality(Live) <= 1

(***************************************************************************)
(* C11: at most one listener thread runs per session, whatever the starts, *)
(* stops, 16 Ch restarts and input device changes, also when the listener  *)
(* blocked on its read outlives the one second join of stop_server.        *)
(***************************************************************************)
\* the listener threads inside the loop of run_midi_input
RunningListeners == {i \in Listeners : listener[i] = "reading"}

\* C11: no state has two listener threads in their read loop
C11_OneListener == Cardinality(RunningListeners) <= 1

(***************************************************************************)
(* C12: the history never holds more than 100 records, whatever the        *)
(* interleaving of appends and sweeps, and an append to the full history   *)
(* drops the oldest record and keeps the others in order.                  *)
(***************************************************************************)
C12_Step ==
    /\ Len(sent_messages') <= HistoryMaxLen
    /\ (osc_sent'.n = osc_sent.n + 1 /\ Len(sent_messages) = HistoryMaxLen) =>
            /\ Len(sent_messages') = HistoryMaxLen
            /\ \A k \in 1..(HistoryMaxLen - 1) : sent_messages'[k] = sent_messages[k + 1]
            /\ sent_messages'[HistoryMaxLen].address = osc_sent'.last.address
            /\ sent_messages'[HistoryMaxLen].at = now

\* C12: every step leaves at most 100 records, evicting first in, first out
C12_Bounded == [][C12_Step]_vars

\* the full history took one more record and lost its oldest, which differed from the rest
C12_Witness ==
    /\ Len(sent_messages) = HistoryMaxLen
    /\ osc_sent.n > HistoryMaxLen
    /\ sent_messages[1].at < sent_messages[HistoryMaxLen].at

(***************************************************************************)
(* C13: right after a sweep, by the timer or inline in the dispatcher      *)
(* callback, the history holds no record stamped more than 100 ms before   *)
(* the time of the sweep.                                                  *)
(***************************************************************************)
Sweeps == cleanup_sent_messages \/ osc_receive(osc_packet.address, osc_packet.args)

C13_Step ==
    Sweeps => \A k \in 1..Len(sent_messages') : now - sent_messages'[k].at <= HistoryWindow

\* C13: a step that sweeps leaves only records of the last 100 ms
C13_SweepLeavesNoOld == [][C13_Step]_vars

(***************************************************************************)
(* C14: the history is passive.  What the dispatcher callback does with a  *)
(* packet is the same in two states that differ only in the history, and a *)
(* packet is not dropped for matching a recent record.                     *)
(***************************************************************************)
\* the history with the records that match the packet removed
WithoutEcho ==
    SelectSeq(sent_messages,
              LAMBDA rec : ~(rec.address = osc_packet.address /\ rec.args = osc_packet.args))

\* the history with one more record, which matches the packet and is stamped now
WithEcho == Append(sent_messages, SentRecord(osc_packet.address, osc_packet.args, "note_on", now))

C14_Histories == {<<>>, sent_messages, WithoutEcho, WithEcho}

C14_Step ==
    osc_receive_packet =>
        /\ \A h1, h2 \in C14_Histories :
               handled(h1, osc_packet.address, osc_packet.args)
                   = handled(h2, osc_packet.address, osc_packet.args)
        /\ osc_outcome' = handled(WithoutEcho, osc_packet.address, osc_packet.args).outcome
        /\ (midi_sent'.n = midi_sent.n + 1)
               = handled(WithoutEcho, osc_packet.address, osc_packet.args).sent

\* C14: every call of the dispatcher callback does what it would do on any other history
C14_PassiveHistory == [][C14_Step]_vars

\* the callback acted on a packet equal to the message the listener had just recorded
C14_Witness ==
    /\ osc_outcome = "sent"
    /\ osc_sent.by = "listener"
    /\ osc_sent.last = midi_sent.of
    /\ Len(sent_messages) >= 2
    /\ sent_messages[Len(sent_messages) - 1].address = osc_packet.address
    /\ sent_messages[Len(sent_messages) - 1].args = osc_packet.args
    /\ sent_messages[Len(sent_messages)].address = osc_packet.address

(***************************************************************************)
(* C15: each message a task emits is followed, before that task emits      *)
(* again, by the append of exactly one record with its address, arguments  *)
(* and kind.                                                               *)
(***************************************************************************)
\* the kind recorded for a MIDI message
ExpectedKind(e) ==
    IF e.type = "note_on" /\ e.velocity = 0 THEN "note_off" ELSE e.type

\* the history took exactly one record, at its end, with this address, arguments and kind
OneAppended(before, address, args, kind) ==
    /\ Len(sent_messages') = (IF Len(before) < HistoryMaxLen THEN Len(before) + 1
                              ELSE HistoryMaxLen)
    /\ sent_messages'[Len(sent_messages')].address = address
    /\ sent_messages'[Len(sent_messages')].args = args
    /\ sent_messages'[Len(sent_messages')].kind = kind
    /\ \A k \in 1..(Len(sent_messages') - 1) :
           sent_messages'[k] = before[k + Len(before) + 1 - Len(sent_messages')]

C15_Step ==
    \* the listener: the message sent leaves the tuple to append, nothing is sent while a
    \* tuple waits, and the tuple is appended once
    /\ (osc_sent'.n = osc_sent.n + 1 /\ osc_sent'.by = "listener") =>
           \E i \in Listeners :
               /\ listener[i] = "reading"
               /\ listener'[i] = "appending"
               /\ listener_local'[i].record.address = osc_sent'.last.address
               /\ listener_local'[i].record.args = osc_sent'.last.args
               /\ listener_local'[i].record.kind = ExpectedKind(midi_event)
    /\ \A i \in Listeners :
           listener[i] = "appending" =>
               \/ listener'[i] = "appending" /\ listener_local'[i] = listener_local[i]
               \/ /\ listener'[i] = "reading"
                  /\ OneAppended(sent_messages, listener_local[i].record.address,
                                 listener_local[i].record.args, listener_local[i].record.kind)
    \* the player and the test note
    /\ (osc_sent'.n = osc_sent.n + 1 /\ osc_sent'.by = "player") =>
           OneAppended(sent_messages, osc_sent'.last.address, osc_sent'.last.args,
                       ExpectedKind(osc_sent'.of))
    /\ (osc_sent'.n = osc_sent.n + 1 /\ osc_sent'.by = "test") =>
           OneAppended(sent_messages, osc_sent'.last.address, osc_sent'.last.args, "note_on")
    \* the dispatcher callback, which sweeps before it acts
    /\ midi_sent'.n = midi_sent.n + 1 =>
           OneAppended(evict_old(sent_messages, now), midi_sent'.of.address,
                       midi_sent'.of.args, ExpectedKind(midi_sent'.last))
    \* nothing is emitted in any other way
    /\ osc_sent'.n \in {osc_sent.n, osc_sent.n + 1}
    /\ osc_sent'.n = osc_sent.n + 1 => osc_sent'.by \in {"listener", "player", "test"}

\* C15: every emission is recorded once before the next emission of the same task
C15_EmissionRecorded == [][C15_Step]_vars

\* the listener, the player or the test note, and the dispatcher callback have emitted,
\* and each emission has its record
C15_Witness ==
    /\ now = 0
    /\ osc_sent.n = 2
    /\ midi_sent.n = 1
    /\ Len(sent_messages) = 3
    /\ \A i \in Listeners : listener[i] # "appending"
    /\ \E k \in 1..3 : sent_messages[k].address = midi_sent.of.address

(***************************************************************************)
(* C16: a successful start registers /ch{c}note, /ch{c}noff and            *)
(* /ch{c}cc{0..127}, for the selected channel or, in 16 Ch mode, for every *)
(* channel; pressure and pitch addresses are not registered; the routes    *)
(* stay as registered until the session is stopped.                        *)
(***************************************************************************)
\* addresses of channel c, and whether the claim has them registered for a mapped channel
C16_Probes(c) ==
    LET ch == <<"/", "c", "h">> \o ChannelText[c] IN
    {[address |-> ch \o <<"n", "o", "t", "e">>, route |-> TRUE],
     [address |-> ch \o <<"n", "o", "f", "f">>, route |-> TRUE],
     [address |-> ch \o <<"c", "c", "0">>, route |-> TRUE],
     [address |-> ch \o <<"c", "c", "7">>, route |-> TRUE],
     [address |-> ch \o <<"c", "c", "1", "2", "7">>, route |-> TRUE],
     [address |-> ch \o <<"c", "c", "1", "2", "8">>, route |-> FALSE],
     [address |-> ch \o <<"c", "c">>, route |-> FALSE],
     [address |-> ch \o <<"p", "r", "e", "s", "s", "u", "r", "e">>, route |-> FALSE],
     [address |-> ch \o <<"p", "i", "t", "c", "h">>, route |-> FALSE]}

\* the channels whose addresses are probed: one and two digits, the first and the last
C16_Channels == {1, 2, 10, 16}

\* the routes are those of the mode: all sixteen channels, or the selected one
C16_Registered(all16, selected) ==
    /\ dispatcher = (IF all16 THEN 1..16 ELSE {selected})
    /\ \A c \in C16_Channels : \A p \in C16_Probes(c) :
           Routed(p.address) = (p.route /\ (all16 \/ c = selected))

C16_Step ==
    /\ (start_button = "Start Server" /\ start_button' = "Stop Server") =>
           (C16_Registered(ch16_checkbox, channel_menu))'
    /\ (start_button = "Stop Server" /\ start_button' = "Stop Server") =>
           dispatcher' = dispatcher

\* C16: the routes are those of the mode at the start and stay until the stop
C16_Routes == [][C16_Step]_vars

\* a session restarted in single-channel mode on channel 2 runs while the menu already
\* shows another channel
C16_Witness ==
    /\ start_button = "Stop Server"
    /\ ~ch16_checkbox
    /\ channel_menu = 16
    /\ Routed(<<"/", "c", "h", "2", "n", "o", "f", "f">>)
    /\ ~Routed(<<"/", "c", "h", "1", "6", "n", "o", "t", "e">>)

(***************************************************************************)
(* C17: a start that fails validation (a port field that is no integer, a  *)
(* device not selected, the inbound port in use) changes nothing of the    *)
(* session: dispatcher, server, server thread, client, listener thread,    *)
(* device handles, saved configuration, the start button; the lock is free *)
(* afterwards.                                                             *)
(***************************************************************************)
ValidationFailures == {"bad_ports", "no_device", "port_in_use"}

C17_Step ==
    \A outcome \in ValidationFailures :
        (/\ start_button = "Start Server"
         /\ \/ start_server(outcome, ch16_checkbox, channel_menu)
            \/ timer_start_server(outcome))
        => /\ dispatcher' = dispatcher
           /\ osc_server' = osc_server
           /\ osc_server_thread' = osc_server_thread
           /\ osc_client' = osc_client
           /\ midi_input_thread' = midi_input_thread
           /\ listener' = listener
           /\ midi_in' = midi_in
           /\ midi_out' = midi_out
           /\ saved_config' = saved_config
           /\ start_button' = "Start Server"
           /\ lock' = "free"

\* C17: a start that fails validation leaves the session as it was
C17_FailedStartChangesNothing == [][C17_Step]_vars

(***************************************************************************)
(* C18: stop_server is idempotent.  On a stopped session it changes        *)
(* nothing and has nothing to shut down, join or close, so a second call   *)
(* right after a first leaves the state of the first; after any call the   *)
(* server, server thread, listener thread, port and client references are  *)
(* unset.                                                                  *)
(***************************************************************************)
InStopServer == {"toggle_16_channels", "quit_app"}

ReferencesUnset ==
    /\ osc_server = None
    /\ osc_server_thread = None
    /\ midi_input_thread = 0
    /\ midi_out = None
    /\ midi_in = None
    /\ osc_client = None

Stopped == start_button = "Start Server" /\ ReferencesUnset

C18_Step ==
    \* the part under the lock
    /\ (ui = "idle" /\ ui' \in InStopServer) =>
           /\ Stopped'
           /\ Stopped => /\ sessionVars' = sessionVars
                         /\ stop_local' = NothingSaved
    \* the part outside the lock
    /\ (ui \in InStopServer /\ ui' # ui) =>
           /\ Stopped'
           /\ sessionVars' = sessionVars
           /\ stop_local = NothingSaved =>
                  /\ listener_local' = listener_local
                  /\ listener' = listener

\* C18: every call of stop_server ends stopped, and a call on a stopped session is a no-op
C18_StopIdempotent == [][C18_Step]_vars /\ [](ui \in InStopServer => Stopped)

\* a second stop_server, called by quit_app while the restart of the first is still
\* pending, found nothing to shut down
C18_Witness ==
    /\ ui = "quit_app"
    /\ timer
    /\ stop_local = NothingSaved
    /\ Stopped

(***************************************************************************)
(* C19: for every b in 20..420, change_tempo(b) sets the microseconds per  *)
(* beat to 60000000 / b (500000 for 120, 1000000 for 60), and converting   *)
(* back gives b.                                                           *)
(***************************************************************************)
\* the number r is num / den: the whole parts and the fractions agree
RatioIs(r, num, den) ==
    /\ r.num \div r.den = num \div den
    /\ (r.num % r.den) * den = (num % den) * r.den

\* int(60000000 / r), the conversion reset_tempo uses, by long division
BeatsPerMinute(r) ==
    (60000000 \div r.num) * r.den + ((60000000 % r.num) * r.den) \div r.num

C19_Step ==
    \* the step is change_tempo(b) for the b the slider is moved to
    LET b == tempo_slider' IN
        (b \in SliderMinimum..SliderMaximum /\ change_tempo(b)) =>
            /\ RatioIs(tempo_microseconds_per_beat', 60000000, b)
            /\ (b = 120 => RatioIs(tempo_microseconds_per_beat', 500000, 1))
            /\ (b = 60 => RatioIs(tempo_microseconds_per_beat', 1000000, 1))
            /\ BeatsPerMinute(tempo_microseconds_per_beat') = b
            /\ tempo' = b

\* C19: change_tempo(b) gives 60000000 / b microseconds per beat, which converts back to b
C19_TempoConversion == [][C19_Step]_vars

\* the slider was set to 70, where 60000000 / 70 is no whole number of microseconds
C19_Witness ==
    /\ tempo = 70
    /\ tempo_slider = 70
    /\ tempo_microseconds_per_beat.num % tempo_microseconds_per_beat.den # 0

(***************************************************************************)
(* C20: after any sequence of change_tempo and reset_tempo the beats per   *)
(* minute are within 20..420 and the microseconds per beat are 60000000    *)
(* divided by the beats per minute.                                        *)
(***************************************************************************)
\* C20: the two tempo fields are in range and agree
C20_TempoCoupled ==
    /\ tempo \in SliderMinimum..SliderMaximum
    /\ RatioIs(tempo_microseconds_per_beat, 60000000, tempo)

(***************************************************************************)
(* C21: after reset_tempo the microseconds per beat are those of the first *)
(* set_tempo message of the first playlist file, in track order, and the   *)
(* beats per minute are derived from them; with no such message, an        *)
(* unreadable first file or an empty playlist the tempo is 120 beats per   *)
(* minute and 500000 microseconds per beat.                                *)
(***************************************************************************)
\* the places <<track, position>> of the set_tempo messages of a file
C21_TempoPlaces(file) ==
    {pl \in (1..Len(file.tracks)) \X (1..2) :
        /\ pl[2] <= Len(file.tracks[pl[1]])
        /\ file.tracks[pl[1]][pl[2]][2].type = "set_tempo"}

\* the first of them in track order
C21_First(file) ==
    CHOOSE pl \in C21_TempoPlaces(file) :
        \A other \in C21_TempoPlaces(file) :
            pl[1] < other[1] \/ (pl[1] = other[1] /\ pl[2] <= other[2])

C21_Step ==
    reset_tempo =>
        IF /\ midi_playlist # <<>>
           /\ midi_playlist[1].readable
           /\ C21_TempoPlaces(midi_playlist[1]) # {}
        THEN LET pl == C21_First(midi_playlist[1])
                 micros == midi_playlist[1].tracks[pl[1]][pl[2]][2].tempo
             IN  /\ RatioIs(tempo_microseconds_per_beat', micros, 1)
                 /\ tempo' = 60000000 \div micros
        ELSE /\ tempo' = DefaultTempo
             /\ RatioIs(tempo_microseconds_per_beat', DefaultMicrosecondsPerBeat, 1)

\* C21: reset_tempo adopts the tempo of the first file, or the default of 120
C21_ResetTempo == [][C21_Step]_vars

(***************************************************************************)
(* C22: an error in opening or playing a playlist file makes the player    *)
(* give up that file only: the thread goes on, the index advances by one,  *)
(* the next entry is played and playing stays set.                         *)
(***************************************************************************)
\* the thread is about to open a file that cannot be read
C22_OpenFails(t) ==
    /\ player[t].pc = "fetch"
    /\ current_playlist_index < Len(midi_playlist)
    /\ ~midi_playlist[current_playlist_index + 1].readable

\* the thread is about to send a channel-voice message with no client to send it
C22_SendFails(t) ==
    /\ player[t].pc = "sleep"
    /\ osc_client = None
    /\ Messages(player[t].file)[player[t].cursor].msg.type \in VoiceTypes

C22_Step ==
    \A t \in Threads :
        /\ ((C22_OpenFails(t) \/ C22_SendFails(t)) /\ player'[t] # player[t]) =>
               /\ player'[t].pc = "advance"
               /\ playing' = playing
               /\ current_playlist_index' = current_playlist_index
               /\ sent_messages' = sent_messages
        /\ (player[t].pc = "advance" /\ player'[t] # player[t]) =>
               /\ player'[t].pc = "loop"
               /\ current_playlist_index' = current_playlist_index + 1
               /\ playing' = playing
        /\ (/\ player[t].pc = "loop" /\ player'[t] # player[t]
            /\ playing /\ ~request_stop
            /\ current_playlist_index < Len(midi_playlist)) =>
               /\ player'[t].pc = "fetch"
               /\ playing' /\ current_playlist_index' = current_playlist_index

\* C22: a file that fails is skipped and the run goes on with the next entry
C22_FileErrorSkipped == [][C22_Step]_vars

\* the first entry could not be read and the run is now playing the second
C22_Witness ==
    /\ playing
    /\ Len(midi_playlist) = 2
    /\ ~midi_playlist[1].readable
    /\ current_playlist_index = 1
    /\ \E t \in Threads : player[t].pc = "sleep" /\ player[t].file = midi_playlist[2]

(***************************************************************************)
(* C23: a player run whose cancellation condition holds (request_stop set, *)
(* or playing cleared) emits nothing more and records nothing more.        *)
(***************************************************************************)
\* a step in which a player run sends a network message or appends its record
C23_Emits ==
    /\ \E t \in Threads : player'[t] # player[t]
    /\ \/ osc_sent'.n > osc_sent.n
       \/ sent_messages' # sent_messages

C23_Step == C23_Emits => (playing /\ ~request_stop)

\* C23: no player run emits or records in a state where request_stop is set or playing is
\* cleared, whether the run was sleeping an inter-event delay or polling the pause flag.
C23_NoEmissionAfterCancel == [][C23_Step]_vars

(***************************************************************************)
(* C24: every operation that takes the session lock gives it back and      *)
(* returns: between operations the lock is free and no thread waits on it. *)
(***************************************************************************)
\* C24: in every reachable state the lock is free and the main thread is not blocked on it,
\* also after the Start/Stop button is pressed while the server runs and after every
\* early return of start_server, change_midi_input and change_midi_output.
C24_LockReleased == lock = "free" /\ ui # "blocked"

(***************************************************************************)
(* C25: in every execution of stop_server the references are detached      *)
(* under the lock and the shutdown, joins and closes run after the lock is *)
(* given back, whichever handler called it.                                *)
(***************************************************************************)
\* the main thread is inside stop_server, past the entry of its `with self.lock`: called
\* from toggle_16_channels or quit_app, or from start_server (the Start/Stop button)
C25_InsideStop == ui \in InStopServer \/ ui = "blocked"

\* C25: while the main thread is inside stop_server beyond the locked part, the lock is not
\* held and every reference is detached, on every path that reaches stop_server.
C25_StopOutsideLock == C25_InsideStop => (lock = "free" /\ ReferencesUnset)

(***************************************************************************)
(* C26: every write of the mutable session state (device handles, client,  *)
(* history, playing, request_stop, paused, playlist index) is made by a    *)
(* task that holds the session lock.                                       *)
(***************************************************************************)
C26_SessionState == <<midi_in, midi_out, osc_client, sent_messages, playing, request_stop,
                      paused, current_playlist_index>>

\* the steps whose code runs inside `with self.lock:` (lines 554, 580, 599, 747, 759, 891,
\* 1066 and 1120)
C26_UnderLock ==
    \/ \E outcome \in DeviceOutcomes : change_midi_input(outcome) \/ change_midi_output(outcome)
    \/ \E outcome \in StartOutcomes, ch16 \in BOOLEAN, ch \in MenuChannels :
           start_server_body(outcome, ch16, ch)
    \/ osc_receive_packet
    \/ cleanup_sent_messages
    \/ \E caller \in InStopServer : stop_server_begin(caller)
    \/ toggle_looping

C26_Step == C26_SessionState' # C26_SessionState => C26_UnderLock

\* C26: the session state changes only in steps made under the session lock, whether the
\* step is the listener's, the player's, the dispatcher's, the sweep's or a control's.
C26_AccessUnderLock == [][C26_Step]_vars

(***************************************************************************)
(* C27: the playback state moves only Stopped -> Playing, Playing <->      *)
(* Paused, Playing -> Stopped and Paused -> Stopped; the pause flag is     *)
(* never set while nothing plays.                                          *)
(***************************************************************************)
PlaybackState ==
    IF ~playing THEN "Stopped" ELSE IF paused THEN "Paused" ELSE "Playing"

C27_Transitions ==
    {<<"Stopped", "Playing">>, <<"Playing", "Paused">>, <<"Paused", "Playing">>,
     <<"Playing", "Stopped">>, <<"Paused", "Stopped">>}

C27_Step ==
    PlaybackState' # PlaybackState => <<PlaybackState, PlaybackState'>> \in C27_Transitions

\* C27: the playback state changes only along the five transitions, and the pause flag is
\* set only while a playback runs, so that a playback starts in Playing and no routed
\* message is dropped as paused while nothing plays.
C27_PauseOnlyWhilePlaying == [][C27_Step]_vars /\ [](paused => playing)

(***************************************************************************)
(* C28: a player run that is still going after a newer run has been        *)
(* started leaves the playback state of the newer run alone.               *)
(***************************************************************************)
\* thread t is an older run: self.thread names another thread, which is running
C28_Superseded(t) == thread # t /\ player[t].pc # "dead" /\ player[thread].pc # "dead"

C28_Step ==
    \A t \in Threads :
        (C28_Superseded(t) /\ player'[t] # player[t]) =>
            /\ playing' = playing
            /\ paused' = paused
            /\ current_playlist_index' = current_playlist_index

\* C28: no step of a superseded run clears playing, clears the pause flag, or advances or
\* resets the playlist index of the newer run.
C28_OldRunLeavesNewAlone == [][C28_Step]_vars

(***************************************************************************)
(* C29: the events of a file of several tracks go out in the order of      *)
(* their absolute ticks, ties in the order of the tracks and, within a     *)
(* track, of the file; meta events do not go out.                          *)
(***************************************************************************)
\* the places of a file: track number and position in the track
C29_Places(file) ==
    {pl \in (1..Len(file.tracks)) \X (1..3) : pl[2] <= Len(file.tracks[pl[1]])}

\* the absolute tick of a place: the sum of the deltas up to it
RECURSIVE C29_Tick(_, _)
C29_Tick(track, pos) == IF pos = 0 THEN 0 ELSE C29_Tick(track, pos - 1) + track[pos][1]

C29_Before(file, a, b) ==
    LET ta == C29_Tick(file.tracks[a[1]], a[2])
        tb == C29_Tick(file.tracks[b[1]], b[2])
    IN  \/ ta < tb
        \/ ta = tb /\ a[1] < b[1]
        \/ ta = tb /\ a[1] = b[1] /\ a[2] < b[2]

\* the place that has k - 1 places before it
C29_Kth(file, k) ==
    CHOOSE pl \in C29_Places(file) :
        Cardinality({other \in C29_Places(file) : C29_Before(file, other, pl)}) = k - 1

C29_Step ==
    \A t \in Threads :
        \* the cursor of a run moves one message at a time
        /\ (player[t].pc \in {"check", "poll", "sleep"} /\ player'[t].cursor # player[t].cursor
            /\ player'[t].pc # "dead") =>
               player'[t].cursor = player[t].cursor + 1
        \* what goes out at the cursor
        /\ (player[t].pc = "sleep" /\ player'[t] # player[t]) =>
               LET file == player[t].file
                   pl == C29_Kth(file, player[t].cursor)
                   msg == file.tracks[pl[1]][pl[2]][2]
               IN  IF msg.type \in VoiceTypes /\ osc_client # None
                   THEN /\ osc_sent'.n = osc_sent.n + 1
                        /\ osc_sent'.of = msg
                        /\ osc_sent'.by = "player"
                   ELSE osc_sent' = osc_sent

C30_Step ==
    /\ (\E outcome \in DeviceOutcomes : change_midi_input(outcome)) =>
           midi_in' \in {"open", None}
    /\ (\E outcome \in DeviceOutcomes : change_midi_output(outcome)) =>
           midi_out' \in {"open", None}

\* C30: a device change leaves the handle open or unset, never naming the port it closed,
\* also when the open fails or no device is selected.
C30_HandleOpenOrUnset == [][C30_Step]_vars

(***************************************************************************)
(* C31: while the session is not marked running no OSC server serves and   *)
(* no listener thread lives, also after a start that failed when the       *)
(* server had already been started.                                        *)
(***************************************************************************)
\* the main thread is in its event loop and the button offers a start
C31_NotRunning == ui = "idle" /\ start_button = "Start Server"

\* C31: whenever the session is not marked running, self.osc_server and its thread are unset
\* and every listener thread has ended.
C31_NothingServes ==
    C31_NotRunning =>
        /\ osc_server = None
        /\ osc_server_thread = None
        /\ \A i \in Listeners : listener[i] = "dead"

(***************************************************************************)
(* C32: while the session runs, the events of the active input port are    *)
(* forwarded: after change_midi_input has opened another port, a listener  *)
(* reads that port.                                                        *)
(***************************************************************************)
\* a listener thread iterates the port self.midi_in names, or is about to begin on it
C32_ListenerOnActivePort ==
    \E i \in Listeners :
        \/ listener[i] = "starting"
        \/ listener[i] \in {"reading", "appending"} /\ listener_local[i].shared

C32_Step ==
    (/\ start_button = "Stop Server"
     /\ \E outcome \in DeviceOutcomes : change_midi_input(outcome)
     /\ midi_in' = "open")
    => C32_ListenerOnActivePort'

\* C32: a change of the input device during a running session that opens the new port
\* leaves a listener thread on that port, so that its events are forwarded.
C32_ListenerFollowsDevice == [][C32_Step]_vars

(***************************************************************************)
(* C33: no task sends through the network client after stop_server has     *)
(* unset it, and no listener or player thread ends by an exception because *)
(* of a stop.                                                              *)
(***************************************************************************)
C33_Step ==
    \* the listener that has passed its test of the button
    /\ \A i \in Listeners :
           (listener[i] = "checked" /\ listener'[i] # listener[i]) => osc_client # None
    \* the player at the send of a channel-voice message
    /\ \A t \in Threads :
           (/\ player[t].pc = "sleep" /\ player'[t] # player[t]
            /\ Messages(player[t].file)[player[t].cursor].msg.type \in VoiceTypes)
           => osc_client # None

\* C33: every send of a listener or player thread finds self.osc_client set.
C33_NoSendAfterDetach == [][C33_Step]_vars

(***************************************************************************)
(* C34: the player reads the playlist only at an index within it, also     *)
(* when stop() clears the playlist after the run has passed its test of    *)
(* the index.                                                              *)
(***************************************************************************)
C34_Step ==
    \A t \in Threads :
        (player[t].pc = "fetch" /\ player'[t] # player[t]) =>
            current_playlist_index < Len(midi_playlist)

\* C34: every read self.midi_playlist[self.current_playlist_index] of a player run finds the
\* index below the length of the playlist, so that no IndexError ends the thread.
C34_IndexWithinPlaylist == [][C34_Step]_vars

(***************************************************************************)
(* C35: after stop() during a playback, with no play after it, the player  *)
(* run ends and leaves playing and the pause flag cleared and the index 0, *)
(* also when the playback was paused at the stop.                          *)
(***************************************************************************)
\* stop() has cancelled a playback whose run is still going, and play() has not been
\* called since
C35_StopRequested == request_stop /\ ~playing /\ Live # {}

\* no player thread is left and the playback state is that of a stopped player
C35_Terminated ==
    /\ Live = {}
    /\ ~playing
    /\ ~paused
    /\ current_playlist_index = 0

\* play() has been called again, or the messages the model lets out have gone out
C35_Released == ~request_stop \/ osc_sent.n = MaxOscSent

\* C35: a stop during playback leads to the end of every player run with playing and the
\* pause flag false and the index 0, unless play is called again.
C35_StopTerminates == C35_StopRequested ~> (C35_Terminated \/ C35_Released)

\* C35 with the press of Pause after the stop set aside: the stop then leads to the end of
\* every run with the flags cleared and the index 0
C35_UnlessPausedAgain ==
    C35_StopRequested ~> (C35_Terminated \/ C35_Released \/ paused)

====
